---- MODULE Spec2Model ----
(***************************************************************************)
(* Workflow similarity clustering and consolidation engine.                *)
(*                                                                         *)
(*   scripts/cluster_automation.py   AutomationClusterer                   *)
(*   zynx_consolidation_agent_v2.py  ZynxConsolidationAgentV2              *)
(*   zynx_consolidation_agent.py     ZynxConsolidationAgent                *)
(*                                                                         *)
(* Python strings are sequences of one-character strings, so that          *)
(* lower(), split(), `in` and == are computed on the characters.           *)
(* Scores are kept in tenths (1.0 is 10) and ratios as <<num, den>>.       *)
(***************************************************************************)
EXTENDS Integers, Sequences, FiniteSets, TLC

(***************************************************************************)
(* Bounds                                                                  *)
(***************************************************************************)
MaxLen == 3          \* longest text handed to _similarity_score on its own
MaxBatch == 2        \* most workflows in one batch given to the clusterer
MaxRecords == 4      \* most annotation records (memories + prompts) loaded
MaxWorkflows == 1    \* most workflows parsed by the agent
MaxCalls == 3        \* most calls of the enrichment methods by a caller of the agent

\* Python None, for self.feature_vectors
None == [none |-> TRUE]

\* no value returned (yet)
NoResult == <<>>

(***************************************************************************)
(* str helpers                                                             *)
(***************************************************************************)
UpperToLower ==
  [c \in {"A","B","C","D","E","F","G","H","I","J","K","L","M","N","O","P",
          "Q","R","S","T","U","V","W","X","Y","Z"} |->
     CASE c = "A" -> "a" [] c = "B" -> "b" [] c = "C" -> "c" [] c = "D" -> "d"
       [] c = "E" -> "e" [] c = "F" -> "f" [] c = "G" -> "g" [] c = "H" -> "h"
       [] c = "I" -> "i" [] c = "J" -> "j" [] c = "K" -> "k" [] c = "L" -> "l"
       [] c = "M" -> "m" [] c = "N" -> "n" [] c = "O" -> "o" [] c = "P" -> "p"
       [] c = "Q" -> "q" [] c = "R" -> "r" [] c = "S" -> "s" [] c = "T" -> "t"
       [] c = "U" -> "u" [] c = "V" -> "v" [] c = "W" -> "w" [] c = "X" -> "x"
       [] c = "Y" -> "y" [] c = "Z" -> "z"]

\* str.lower()
Lower(s) ==
  [i \in 1..Len(s) |-> IF s[i] \in DOMAIN UpperToLower THEN UpperToLower[s[i]] ELSE s[i]]

\* the characters str.split() separates on
Whitespace == {" ", "\t", "\n"}

\* str.split(): the maximal runs of non-whitespace characters, in order.
\* cur is the run being read, i the next position.
RECURSIVE SplitFrom(_, _, _)
SplitFrom(s, i, cur) ==
  IF i > Len(s)
    THEN IF cur = <<>> THEN <<>> ELSE <<cur>>
    ELSE IF s[i] \in Whitespace
           THEN IF cur = <<>> THEN SplitFrom(s, i + 1, <<>>)
                              ELSE <<cur>> \o SplitFrom(s, i + 1, <<>>)
           ELSE SplitFrom(s, i + 1, Append(cur, s[i]))

Split(s) == SplitFrom(s, 1, <<>>)

\* set(list)
ToSet(seq) == {seq[i] : i \in 1..Len(seq)}

\* `a in b` on two strings
IsSubstring(a, b) ==
  \E i \in 0..(Len(b) - Len(a)) : SubSeq(b, i + 1, i + Len(a)) = a

\* sep.join(parts)
RECURSIVE Join(_, _)
Join(sep, parts) ==
  IF parts = <<>> THEN <<>>
  ELSE IF Len(parts) = 1 THEN parts[1]
  ELSE parts[1] \o sep \o Join(sep, Tail(parts))

(***************************************************************************)
(* ZynxConsolidationAgentV2._similarity_score                              *)
(***************************************************************************)
\* the quotient len(intersection) / len(union) as <<numerator, denominator>>
Zero == <<0, 1>>

SimilarityScore_NoLower(text1, text2) ==
  IF text1 = <<>> \/ text2 = <<>> THEN Zero
  ELSE LET words1 == ToSet(Split(text1))
           words2 == ToSet(Split(text2))
       IN IF words1 = {} \/ words2 = {} THEN Zero
          ELSE <<Cardinality(words1 \cap words2), Cardinality(words1 \cup words2)>>

SimilarityScore(text1, text2) ==
  IF text1 = <<>> \/ text2 = <<>> THEN Zero
  ELSE LET words1 == ToSet(Split(Lower(text1)))
           words2 == ToSet(Split(Lower(text2)))
       IN IF words1 = {} \/ words2 = {} THEN Zero
          ELSE IF words1 \cup words2 /= {}
                 THEN <<Cardinality(words1 \cap words2), Cardinality(words1 \cup words2)>>
                 ELSE Zero

\* q > t/10 for a quotient q = <<num, den>> and a threshold in tenths
Exceeds(q, tenths) == q[1] * 10 > tenths * q[2]

(***************************************************************************)
(* Keywords of the cluster labels                                          *)
(***************************************************************************)
kw_pull_request == <<"p","u","l","l"," ","r","e","q","u","e","s","t">>
kw_pr == <<"p","r">>
kw_review == <<"r","e","v","i","e","w">>
kw_merge == <<"m","e","r","g","e">>
kw_deploy == <<"d","e","p","l","o","y">>
kw_release == <<"r","e","l","e","a","s","e">>
kw_build == <<"b","u","i","l","d">>
kw_publish == <<"p","u","b","l","i","s","h">>
kw_debug == <<"d","e","b","u","g">>
kw_memory == <<"m","e","m","o","r","y">>
kw_log == <<"l","o","g">>
kw_monitor == <<"m","o","n","i","t","o","r">>
kw_test == <<"t","e","s","t">>
kw_validate == <<"v","a","l","i","d","a","t","e">>
kw_check == <<"c","h","e","c","k">>
kw_verify == <<"v","e","r","i","f","y">>
kw_approval == <<"a","p","p","r","o","v","a","l">>
kw_docker == <<"d","o","c","k","e","r">>
kw_assert == <<"a","s","s","e","r","t">>
kw_profile == <<"p","r","o","f","i","l","e">>
kw_security == <<"s","e","c","u","r","i","t","y">>
kw_scan == <<"s","c","a","n">>
kw_vulnerability == <<"v","u","l","n","e","r","a","b","i","l","i","t","y">>
kw_audit == <<"a","u","d","i","t">>
kw_docs == <<"d","o","c","s">>
kw_documentation == <<"d","o","c","u","m","e","n","t","a","t","i","o","n">>
kw_readme == <<"r","e","a","d","m","e">>
kw_npm == <<"n","p","m">>
kw_yarn == <<"y","a","r","n">>
kw_pip == <<"p","i","p">>
kw_install == <<"i","n","s","t","a","l","l">>
kw_update == <<"u","p","d","a","t","e">>

(***************************************************************************)
(* AutomationClusterer (scripts/cluster_automation.py)                     *)
(***************************************************************************)
\* the text of one workflow dict, as built in extract_features
WorkflowText(workflow) ==
  LET text_parts ==
        (IF workflow.name /= <<>> THEN <<workflow.name>> ELSE <<>>)
        \o (IF workflow.description /= <<>> THEN <<workflow.description>> ELSE <<>>)
        \o workflow.actions \o workflow.triggers \o workflow.tags
  IN Join(<<" ">>, text_parts)

WorkflowTexts(workflows_data) ==
  [i \in 1..Len(workflows_data) |-> WorkflowText(workflows_data[i])]

\* the characters of a token of the vectorizer: \w
WordCharacters ==
  DOMAIN UpperToLower \cup {UpperToLower[c] : c \in DOMAIN UpperToLower}
    \cup {"0", "1", "2", "3", "4", "5", "6", "7", "8", "9", "_"}

\* the maximal runs of word characters, in order
RECURSIVE TokensFrom(_, _, _)
TokensFrom(s, i, cur) ==
  IF i > Len(s)
    THEN IF cur = <<>> THEN <<>> ELSE <<cur>>
    ELSE IF s[i] \notin WordCharacters
           THEN IF cur = <<>> THEN TokensFrom(s, i + 1, <<>>)
                              ELSE <<cur>> \o TokensFrom(s, i + 1, <<>>)
           ELSE TokensFrom(s, i + 1, Append(cur, s[i]))

\* TfidfVectorizer(max_features=1000, stop_words='english', ngram_range=(1, 2)).
\* The analyzer lower-cases, keeps the tokens of two or more word characters
\* and drops stop words. Of the English stop list, the words that occur in
\* the pools are listed.
StopWords == {<<"t","h","e">>, <<"t","o">>, <<"a","n","d">>}

MaxFeatures == 1000

Analyze(text) ==
  SelectSeq(TokensFrom(Lower(text), 1, <<>>),
            LAMBDA tok : Len(tok) >= 2 /\ tok \notin StopWords)

\* the unigrams, then the bigrams of adjacent tokens
Terms(text) ==
  LET toks == Analyze(text)
  IN toks \o [i \in 1..(Len(toks) - 1) |-> toks[i] \o <<" ">> \o toks[i + 1]]

Vocabulary(texts) == UNION {ToSet(Terms(texts[i])) : i \in 1..Len(texts)}

Count(seq, x) == Cardinality({i \in 1..Len(seq) : seq[i] = x})

\* fit_transform: one row per text over the vocabulary of the whole batch.
\* The tf-idf weight of a term in a row is a function of its count in the
\* text (tf), the number of texts holding it (df) and the number of texts
\* (n_docs); the matrix is kept as these three.
FitTransform(texts) ==
  LET vocabulary == Vocabulary(texts)
  IN [n_docs |-> Len(texts),
      df |-> [t \in vocabulary |->
                Cardinality({i \in 1..Len(texts) : t \in ToSet(Terms(texts[i]))})],
      tf |-> [i \in 1..Len(texts) |->
                [t \in vocabulary |-> Count(Terms(texts[i]), t)]]]

\* fit_transform raises ValueError("empty vocabulary") on such a batch
EmptyVocabulary(texts) == Vocabulary(texts) = {}

Min(a, b) == IF a <= b THEN a ELSE b

\* KMeans(n_clusters, random_state=42).fit_predict(rows): the label of a row
\* is its nearest centre, so equal rows get equal labels, and the number of
\* labels in use is n_clusters unless the rows hold fewer distinct points.
\* Which partition comes out is left open.
KMeansLabels(fv, n_clusters) ==
  LET m == Len(fv.tf)
  IN {labels \in [1..m -> 0..(n_clusters - 1)] :
        /\ \A i, j \in 1..m : fv.tf[i] = fv.tf[j] => labels[i] = labels[j]
        /\ Cardinality({labels[i] : i \in 1..m})
             = Min(n_clusters, Cardinality(ToSet(fv.tf)))}

\* a KMeans that accepts more clusters than there are rows
KMeansRejects_NonPositive(fv, n_clusters) == n_clusters <= 0

\* KMeans raises ValueError for these
KMeansRejects(fv, n_clusters) == n_clusters <= 0 \/ Len(fv.tf) < n_clusters

\* type_patterns of _determine_cluster_type, in the order of the dict
TypePatterns ==
  << [cluster_type |-> "PR Management",
      keywords |-> <<kw_pull_request, kw_pr, kw_review, kw_merge, kw_approval>>],
     [cluster_type |-> "Deployment",
      keywords |-> <<kw_deploy, kw_release, kw_build, kw_publish, kw_docker>>],
     [cluster_type |-> "Testing",
      keywords |-> <<kw_test, kw_validate, kw_check, kw_verify, kw_assert>>],
     [cluster_type |-> "Memory Debugger",
      keywords |-> <<kw_debug, kw_memory, kw_log, kw_monitor, kw_profile>>],
     [cluster_type |-> "Security",
      keywords |-> <<kw_security, kw_scan, kw_vulnerability, kw_audit>>],
     [cluster_type |-> "Documentation",
      keywords |-> <<kw_docs, kw_documentation, kw_readme>>],
     [cluster_type |-> "Dependency Management",
      keywords |-> <<kw_npm, kw_yarn, kw_pip, kw_install, kw_update>>] >>

\* all_text of _determine_cluster_type
AllText(wfs) ==
  Lower(Join(<<" ">>,
             [i \in 1..Len(wfs) |->
                wfs[i].name \o <<" ">> \o wfs[i].description \o <<" ">>
                  \o Join(<<" ">>, wfs[i].actions)]))

\* sum(1 for keyword in keywords if keyword in all_text)
TypeScore(keywords, all_text) ==
  Cardinality({k \in 1..Len(keywords) : IsSubstring(keywords[k], all_text)})

\* _determine_cluster_type with max taking the last of the highest scores
DetermineClusterType_LastMax(wfs) ==
  LET all_text == AllText(wfs)
      type_scores == [t \in 1..Len(TypePatterns) |->
                        TypeScore(TypePatterns[t].keywords, all_text)]
  IN IF Len(type_scores) > 0
       THEN TypePatterns[CHOOSE t \in 1..Len(type_scores) :
                           /\ \A u \in 1..Len(type_scores) : type_scores[u] <= type_scores[t]
                           /\ \A u \in (t + 1)..Len(type_scores) :
                                type_scores[u] < type_scores[t]].cluster_type
       ELSE "General Automation"

\* _determine_cluster_type: max over the items of type_scores returns the
\* first item with the highest score; type_scores has an item per pattern
DetermineClusterType(wfs) ==
  LET all_text == AllText(wfs)
      type_scores == [t \in 1..Len(TypePatterns) |->
                        TypeScore(TypePatterns[t].keywords, all_text)]
  IN IF Len(type_scores) > 0
       THEN TypePatterns[CHOOSE t \in 1..Len(type_scores) :
                           /\ \A u \in 1..Len(type_scores) : type_scores[u] <= type_scores[t]
                           /\ \A u \in 1..(t - 1) : type_scores[u] < type_scores[t]].cluster_type
       ELSE "General Automation"

\* the positions of cluster_labels that hold the label, in order
RECURSIVE IndicesOf(_, _, _)
IndicesOf(cluster_labels, label, i) ==
  IF i > Len(cluster_labels) THEN <<>>
  ELSE (IF cluster_labels[i] = label THEN <<i>> ELSE <<>>)
       \o IndicesOf(cluster_labels, label, i + 1)

\* the keys of the defaultdict without the `if label != -1` test
RECURSIVE LabelsInOrder_KeepNoise(_, _, _, _)
LabelsInOrder_KeepNoise(cluster_labels, i, seen, skip) ==
  IF i > Len(cluster_labels) THEN <<>>
  ELSE IF cluster_labels[i] \in seen
         THEN LabelsInOrder_KeepNoise(cluster_labels, i + 1, seen, skip)
         ELSE <<cluster_labels[i]>>
              \o LabelsInOrder_KeepNoise(cluster_labels, i + 1,
                                         seen \cup {cluster_labels[i]}, skip)

\* the keys of the defaultdict, in insertion order: each label at its first
\* occurrence; skip is the label left out (-1 for DBSCAN noise)
RECURSIVE LabelsInOrder(_, _, _, _)
LabelsInOrder(cluster_labels, i, seen, skip) ==
  IF i > Len(cluster_labels) THEN <<>>
  ELSE IF cluster_labels[i] \in seen \/ cluster_labels[i] = skip
         THEN LabelsInOrder(cluster_labels, i + 1, seen, skip)
         ELSE <<cluster_labels[i]>>
              \o LabelsInOrder(cluster_labels, i + 1, seen \cup {cluster_labels[i]}, skip)

NoSkip == -2

\* self.workflows.index(workflow) for each workflow of the cluster: the first
\* position of self.workflows that holds an equal dict
ClusterRows(cluster_workflows, wfs) ==
  [n \in 1..Len(cluster_workflows) |->
     CHOOSE i \in 1..Len(wfs) :
       /\ wfs[i] = cluster_workflows[n]
       /\ \A j \in 1..(i - 1) : wfs[j] /= cluster_workflows[n]]

\* the (i, j) of the two loops over cluster_indices, in order
RECURSIVE PairsFrom(_, _, _)
PairsFrom(n, i, j) ==
  IF i > n THEN <<>>
  ELSE IF j > n THEN PairsFrom(n, i + 1, i + 2)
  ELSE <<(<<i, j>>)>> \o PairsFrom(n, i, j + 1)

\* the value 1.0 returned for fewer than two workflows
Single == [mean_of |-> <<>>, value |-> "1.0"]

\* np.mean(similarities): the cosine similarity of two rows of one matrix is
\* a function of the two rows, and each term is kept as the pair of rows
MeanOf(similarities) ==
  IF similarities /= <<>> THEN [mean_of |-> similarities, value |-> "mean"]
  ELSE [mean_of |-> <<>>, value |-> "0.0"]

\* _calculate_cluster_similarity without the returns for fewer than two workflows
CalculateClusterSimilarity_NoSingle(cluster_workflows, wfs, fv) ==
  LET cluster_indices == ClusterRows(cluster_workflows, wfs)
      pairs == PairsFrom(Len(cluster_indices), 1, 2)
  IN MeanOf([p \in 1..Len(pairs) |->
               <<fv.tf[cluster_indices[pairs[p][1]]], fv.tf[cluster_indices[pairs[p][2]]]>>])

\* _calculate_cluster_similarity. The workflows of a cluster are taken from
\* the first len(cluster_labels) positions of self.workflows, so index()
\* finds each of them at a position that has a row.
CalculateClusterSimilarity(cluster_workflows, wfs, fv) ==
  IF Len(cluster_workflows) < 2 THEN Single
  ELSE LET cluster_indices == ClusterRows(cluster_workflows, wfs)
           pairs == PairsFrom(Len(cluster_indices), 1, 2)
       IN IF Len(cluster_indices) < 2 THEN Single
          ELSE MeanOf([p \in 1..Len(pairs) |->
                         <<fv.tf[cluster_indices[pairs[p][1]]],
                           fv.tf[cluster_indices[pairs[p][2]]]>>])

\* the WorkflowCluster list built from the labels; indices records the
\* positions of self.workflows each cluster was filled from
GroupByLabel(cluster_labels, wfs, skip, fv) ==
  LET keys == LabelsInOrder(cluster_labels, 1, {}, skip)
  IN [c \in 1..Len(keys) |->
        LET idx == IndicesOf(cluster_labels, keys[c], 1)
            members == [n \in 1..Len(idx) |-> wfs[idx[n]]]
        IN [cluster_id |-> keys[c],
            indices |-> idx,
            workflows |-> members,
            similarity_score |-> CalculateClusterSimilarity(members, wfs, fv),
            cluster_type |-> DetermineClusterType(members)]]

\* self.workflows[i] raises IndexError when there are more labels than workflows
GroupingRaises(cluster_labels, wfs, skip) ==
  \E i \in 1..Len(cluster_labels) : cluster_labels[i] /= skip /\ i > Len(wfs)

\* DBSCAN(eps=0.3, min_samples=2).fit_predict(rows). Two rows are neighbours
\* when their distance is at most eps: equal rows always are, rows with no
\* term in common never are, any other pair may or may not be.
Support(row) == {t \in DOMAIN row : row[t] > 0}

NeighbourRelations(fv) ==
  LET m == Len(fv.tf)
      pairs == {p \in (1..m) \X (1..m) : p[1] < p[2]}
  IN {near \in SUBSET pairs :
        \A p \in pairs :
          /\ fv.tf[p[1]] = fv.tf[p[2]] => p \in near
          /\ (fv.tf[p[1]] /= fv.tf[p[2]]
                /\ Support(fv.tf[p[1]]) \cap Support(fv.tf[p[2]]) = {}) => p \notin near}

RECURSIVE Component(_, _, _)
Component(near, m, reached) ==
  LET more == reached \cup {j \in 1..m : \E i \in reached : <<i, j>> \in near \/ <<j, i>> \in near}
  IN IF more = reached THEN reached ELSE Component(near, m, more)

SetMin(S) == CHOOSE x \in S : \A y \in S : x <= y

\* with min_samples = 2 every row that has a neighbour is a core point; the
\* clusters are the components of two or more rows, numbered in the order of
\* their first row, and a row without neighbour is noise (-1)
DBSCANLabels(fv) ==
  LET m == Len(fv.tf)
  IN {[i \in 1..m |->
         LET comp == Component(near, m, {i})
             firsts == {SetMin(Component(near, m, {j})) :
                          j \in {k \in 1..m : Cardinality(Component(near, m, {k})) >= 2}}
         IN IF Cardinality(comp) < 2 THEN -1
            ELSE Cardinality({f \in firsts : f < SetMin(comp)})] :
      near \in NeighbourRelations(fv)}

Methods == {"kmeans", "dbscan", "spectral"}

\* n_clusters: int = 5
DefaultClusters == 5

(***************************************************************************)
(* ZynxConsolidationAgentV2: matching annotation records to a workflow     *)
(***************************************************************************)
\* matches[:3]
TopMatches == 3

\* MemoryScore with the scores of all satisfied rules added up
MemoryScore_Sum(workflow, memory) ==
  (IF memory.task_id /= <<>> /\ IsSubstring(memory.task_id, workflow.name) THEN 10 ELSE 0)
  + (IF memory.workflow_name /= <<>>
          /\ Exceeds(SimilarityScore(workflow.name, memory.workflow_name), 7) THEN 8 ELSE 0)
  + (IF memory.trigger_pattern /= <<>>
          /\ \E i \in 1..Len(workflow.triggers) :
               IsSubstring(workflow.triggers[i], memory.trigger_pattern) THEN 6 ELSE 0)
  + (IF memory.context /= <<>>
          /\ Exceeds(SimilarityScore(workflow.description, memory.context), 5) THEN 5 ELSE 0)

\* MemoryScore with the context rule taking any overlap, also none
MemoryScore_NoThreshold(workflow, memory) ==
  IF memory.task_id /= <<>> /\ IsSubstring(memory.task_id, workflow.name)
    THEN 10
  ELSE IF memory.workflow_name /= <<>>
            /\ Exceeds(SimilarityScore(workflow.name, memory.workflow_name), 7)
    THEN 8
  ELSE IF memory.trigger_pattern /= <<>>
            /\ \E i \in 1..Len(workflow.triggers) :
                 IsSubstring(workflow.triggers[i], memory.trigger_pattern)
    THEN 6
  ELSE IF memory.context /= <<>> THEN 5
  ELSE 0

\* the score appended with a memory in _find_matching_memories, in tenths;
\* 0 when the memory is not appended
MemoryScore(workflow, memory) ==
  IF memory.task_id /= <<>> /\ IsSubstring(memory.task_id, workflow.name)
    THEN 10
  ELSE IF memory.workflow_name /= <<>>
            /\ Exceeds(SimilarityScore(workflow.name, memory.workflow_name), 7)
    THEN 8
  ELSE IF memory.trigger_pattern /= <<>>
            /\ \E i \in 1..Len(workflow.triggers) :
                 IsSubstring(workflow.triggers[i], memory.trigger_pattern)
    THEN 6
  ELSE IF memory.context /= <<>>
            /\ Exceeds(SimilarityScore(workflow.description, memory.context), 5)
    THEN 5
  ELSE 0

\* the rules of _find_matching_prompts without the tests that the field of
\* the record is set
PromptScore_Unguarded(workflow, prompt) ==
  IF IsSubstring(Lower(prompt.task_type), Lower(workflow.name))
    THEN 10
  ELSE IF IsSubstring(Lower(prompt.workflow_tag), Lower(workflow.name))
    THEN 9
  ELSE IF Exceeds(SimilarityScore(workflow.description, prompt.prompt), 3)
    THEN 6
  ELSE IF Exceeds(SimilarityScore(workflow.description, prompt.injected_context), 3)
    THEN 5
  ELSE 0

\* the score appended with a prompt in _find_matching_prompts
PromptScore(workflow, prompt) ==
  IF prompt.task_type /= <<>> /\ IsSubstring(Lower(prompt.task_type), Lower(workflow.name))
    THEN 10
  ELSE IF prompt.workflow_tag /= <<>>
            /\ IsSubstring(Lower(prompt.workflow_tag), Lower(workflow.name))
    THEN 9
  ELSE IF prompt.prompt /= <<>>
            /\ Exceeds(SimilarityScore(workflow.description, prompt.prompt), 3)
    THEN 6
  ELSE IF prompt.injected_context /= <<>>
            /\ Exceeds(SimilarityScore(workflow.description, prompt.injected_context), 3)
    THEN 5
  ELSE 0

\* the list `matches` after the loop of _find_matching_memories: the
\* appended (record, score) pairs in input order
MemoryMatches(workflow, memories) ==
  SelectSeq([i \in 1..Len(memories) |->
               [record |-> memories[i], score |-> MemoryScore(workflow, memories[i])]],
            LAMBDA m : m.score > 0)

\* the same list in _find_matching_prompts
PromptMatches(workflow, prompts) ==
  SelectSeq([i \in 1..Len(prompts) |->
               [record |-> prompts[i], score |-> PromptScore(workflow, prompts[i])]],
            LAMBDA m : m.score > 0)

\* the sort left out
SortByScore_Unsorted(matches) == matches

\* the sort without reverse=True
RECURSIVE SortByScore_Ascending(_)
SortByScore_Ascending(matches) ==
  IF matches = <<>> THEN <<>>
  ELSE LET sorted == SortByScore_Ascending(SubSeq(matches, 1, Len(matches) - 1))
           last == matches[Len(matches)]
           before == Cardinality({i \in 1..Len(sorted) : sorted[i].score <= last.score})
       IN SubSeq(sorted, 1, before) \o <<last>> \o SubSeq(sorted, before + 1, Len(sorted))

\* a sort that puts a later record before the earlier ones of its score
RECURSIVE SortByScore_LaterFirst(_)
SortByScore_LaterFirst(matches) ==
  IF matches = <<>> THEN <<>>
  ELSE LET sorted == SortByScore_LaterFirst(SubSeq(matches, 1, Len(matches) - 1))
           last == matches[Len(matches)]
           before == Cardinality({i \in 1..Len(sorted) : sorted[i].score > last.score})
       IN SubSeq(sorted, 1, before) \o <<last>> \o SubSeq(sorted, before + 1, Len(sorted))

\* matches.sort(key=lambda x: x[1], reverse=True): stable, highest score first
RECURSIVE SortByScore(_)
SortByScore(matches) ==
  IF matches = <<>> THEN <<>>
  ELSE LET sorted == SortByScore(SubSeq(matches, 1, Len(matches) - 1))
           last == matches[Len(matches)]
           before == Cardinality({i \in 1..Len(sorted) : sorted[i].score >= last.score})
       IN SubSeq(sorted, 1, before) \o <<last>> \o SubSeq(sorted, before + 1, Len(sorted))

\* [record for record, score in matches[:3]]
TopRecords(matches) ==
  [i \in 1..Min(TopMatches, Len(matches)) |-> matches[i].record]

FindMatchingMemories(workflow, memories) ==
  TopRecords(SortByScore(MemoryMatches(workflow, memories)))

FindMatchingPrompts(workflow, prompts) ==
  TopRecords(SortByScore(PromptMatches(workflow, prompts)))

\* the loop body without the `if matching_memories` test, taking the first loaded memory
EnrichWithMemory_Unmatched(workflow, memories) ==
  IF memories /= <<>>
    THEN LET best_memory == memories[1]
         IN [workflow EXCEPT !.emotion = best_memory.emotion,
                             !.deeja_tag = best_memory.tag,
                             !.memory_id = best_memory.memory_id,
                             !.memory_context = best_memory.context]
    ELSE workflow

\* a loop body that adds the context of the match to the context already set
EnrichWithMemory_Appending(workflow, memories) ==
  LET matching_memories == FindMatchingMemories(workflow, memories)
  IN IF matching_memories /= <<>>
       THEN LET best_memory == matching_memories[1]
            IN [workflow EXCEPT !.emotion = best_memory.emotion,
                                !.deeja_tag = best_memory.tag,
                                !.memory_id = best_memory.memory_id,
                                !.memory_context = workflow.memory_context \o best_memory.context]
       ELSE workflow

\* the loop body of enrich_workflows_with_memory
EnrichWithMemory(workflow, memories) ==
  LET matching_memories == FindMatchingMemories(workflow, memories)
  IN IF matching_memories /= <<>>
       THEN LET best_memory == matching_memories[1]
            IN [workflow EXCEPT !.emotion = best_memory.emotion,
                                !.deeja_tag = best_memory.tag,
                                !.memory_id = best_memory.memory_id,
                                !.memory_context = best_memory.context]
       ELSE workflow

\* a loop body that also records the id of the prompt among the tags
EnrichWithPrompt_Tagging(workflow, prompts) ==
  LET matching_prompts == FindMatchingPrompts(workflow, prompts)
  IN IF matching_prompts /= <<>>
       THEN LET best_prompt == matching_prompts[1]
            IN [workflow EXCEPT !.injected_prompt = best_prompt.prompt,
                                !.reasoning_score = best_prompt.reasoning_score,
                                !.prompt_id = best_prompt.prompt_id,
                                !.mcp_context = best_prompt.injected_context,
                                !.tags = Append(workflow.tags, best_prompt.prompt_id)]
       ELSE workflow

\* the loop body of enrich_workflows_with_prompts
EnrichWithPrompt(workflow, prompts) ==
  LET matching_prompts == FindMatchingPrompts(workflow, prompts)
  IN IF matching_prompts /= <<>>
       THEN LET best_prompt == matching_prompts[1]
            IN [workflow EXCEPT !.injected_prompt = best_prompt.prompt,
                                !.reasoning_score = best_prompt.reasoning_score,
                                !.prompt_id = best_prompt.prompt_id,
                                !.mcp_context = best_prompt.injected_context]
       ELSE workflow

(***************************************************************************)
(* Records and workflows given to the agent                                *)
(***************************************************************************)
str_mvp_validation == <<"M","V","P"," ","V","a","l","i","d","a","t","i","o","n">>
str_run_mvp_validation_tests == <<"R","u","n"," ","M","V","P"," ","v","a","l","i","d","a","t","i","o","n"," ","t","e","s","t","s">>
str_workflow_dispatch == <<"w","o","r","k","f","l","o","w","_","d","i","s","p","a","t","c","h">>
str_deploy_app == <<"D","e","p","l","o","y"," ","A","p","p">>
str_deploy_the_app == <<"d","e","p","l","o","y"," ","t","h","e"," ","a","p","p">>
str_push == <<"p","u","s","h">>
str_mvp == <<"M","V","P">>
str_mvp_validation_lc == <<"m","v","p"," ","v","a","l","i","d","a","t","i","o","n">>
str_on_push == <<"o","n"," ","p","u","s","h">>
str_run_mvp_validation_tests_now == <<"r","u","n"," ","m","v","p"," ","v","a","l","i","d","a","t","i","o","n"," ","t","e","s","t","s"," ","n","o","w">>
str_user_frustrated == <<"u","s","e","r"," ","f","r","u","s","t","r","a","t","e","d"," ","w","a","n","t","e","d"," ","t","o"," ","a","u","t","o","m","a","t","e"," ","t","e","s","t","i","n","g">>
str_validation == <<"v","a","l","i","d","a","t","i","o","n">>
str_run_mvp_validation == <<"r","u","n"," ","m","v","p"," ","v","a","l","i","d","a","t","i","o","n">>
str_validation_tests == <<"v","a","l","i","d","a","t","i","o","n"," ","t","e","s","t","s">>

\* EnhancedAutomationWorkflow as the parser constructs it: the enrichment
\* fields have their dataclass defaults. Identifiers that are only copied
\* (ids, emotion, tag) are plain strings; reasoning_score is in tenths.
EnhancedAutomationWorkflow(file_path, name, description, triggers) ==
  [file_path |-> file_path, workflow_type |-> "GitHub Actions", name |-> name,
   description |-> description, triggers |-> triggers, actions |-> <<>>,
   dependencies |-> <<>>, tags |-> <<>>, similarity_score |-> 0,
   emotion |-> "", deeja_tag |-> "", memory_id |-> "", memory_context |-> <<>>,
   injected_prompt |-> <<>>, reasoning_score |-> 0, prompt_id |-> "", mcp_context |-> <<>>]

DeejaMemory(memory_id, task_id, emotion, tag, context, trigger_pattern, workflow_name) ==
  [memory_id |-> memory_id, task_id |-> task_id, emotion |-> emotion, tag |-> tag,
   context |-> context, timestamp |-> "", trigger_pattern |-> trigger_pattern,
   workflow_name |-> workflow_name]

MCPPrompt(prompt_id, task_type, workflow_tag, prompt, reasoning_score, injected_context) ==
  [prompt_id |-> prompt_id, task_type |-> task_type, workflow_tag |-> workflow_tag,
   prompt |-> prompt, reasoning_score |-> reasoning_score,
   injected_context |-> injected_context, timestamp |-> ""]

wf_mvp ==
  EnhancedAutomationWorkflow("mvp.yml", str_mvp_validation, str_run_mvp_validation_tests,
                             <<str_push>>)
wf_deploy ==
  EnhancedAutomationWorkflow("deploy.yml", str_deploy_app, str_deploy_the_app,
                             <<str_workflow_dispatch>>)

ParsedWorkflows == {wf_mvp, wf_deploy}

\* satisfies every rule for wf_mvp
mem_task ==
  DeejaMemory("m1", str_mvp, "focused", "testing", str_run_mvp_validation_tests,
              str_on_push, str_mvp_validation)
\* reference name only
mem_name == DeejaMemory("m2", <<>>, "hopeful", "naming", <<>>, <<>>, str_mvp_validation_lc)
\* trigger pattern only
mem_trigger == DeejaMemory("m3", <<>>, "excited", "ci", <<>>, str_on_push, <<>>)
\* context close to the description of wf_mvp
mem_context ==
  DeejaMemory("m4", <<>>, "satisfied", "tests", str_run_mvp_validation_tests_now, <<>>, <<>>)
\* context with no token of the description of wf_mvp
mem_frustrated == DeejaMemory("m5", <<>>, "frustrated", "automation", str_user_frustrated, <<>>, <<>>)

MemoryRecords == {mem_task, mem_name, mem_trigger, mem_context, mem_frustrated}

\* satisfies every rule for wf_mvp
prompt_type ==
  MCPPrompt("p1", str_validation, str_mvp, str_run_mvp_validation_tests, 9,
            str_run_mvp_validation_tests)
\* workflow tag only
prompt_tag == MCPPrompt("p2", <<>>, str_mvp, <<>>, 8, <<>>)
\* prompt text close to the description of wf_mvp
prompt_text == MCPPrompt("p3", <<>>, <<>>, str_run_mvp_validation, 7, <<>>)
\* injected context close to the description of wf_mvp
prompt_context == MCPPrompt("p4", <<>>, <<>>, <<>>, 6, str_validation_tests)
PromptRecords == {prompt_type, prompt_tag, prompt_text, prompt_context}

\* records with equal scores for wf_mvp, and records with no field to match on
\* trigger pattern only, as mem_trigger
mem_push == DeejaMemory("m6", <<>>, "curious", "push", <<>>, str_push, <<>>)
\* the description of wf_mvp as context, as close as mem_context
mem_description ==
  DeejaMemory("m7", <<>>, "calm", "docs", str_run_mvp_validation_tests, <<>>, <<>>)
\* an entry with none of the four matched keys
mem_blank == DeejaMemory("m0", <<>>, "neutral", "misc", <<>>, <<>>, <<>>)

TiedMemories == {mem_trigger, mem_push, mem_context, mem_description, mem_blank}

\* the description of wf_mvp as prompt text, as close as prompt_text
prompt_description == MCPPrompt("p6", <<>>, <<>>, str_run_mvp_validation_tests, 4, <<>>)
\* an entry with none of the four matched keys
prompt_blank == MCPPrompt("p0", <<>>, <<>>, <<>>, 5, <<>>)

TiedPrompts == {prompt_text, prompt_description, prompt_blank}

\* wf_mvp parsed from a file without description, and from one without triggers
wf_no_description ==
  EnhancedAutomationWorkflow("nodesc.yml", str_mvp_validation, <<>>, <<str_push>>)
wf_no_triggers ==
  EnhancedAutomationWorkflow("notrig.yml", str_mvp_validation, str_run_mvp_validation_tests,
                             <<>>)

EnrichedInputs == {wf_mvp, wf_no_description, wf_no_triggers}

\* the lists of distinct elements of S with at most n elements
RECURSIVE ListsUpTo(_, _)
ListsUpTo(S, n) ==
  IF n = 0 THEN {<<>>}
  ELSE LET shorter == ListsUpTo(S, n - 1)
           longest == {u \in shorter : Len(u) = n - 1}
       IN shorter \cup {Append(p[1], p[2]) : p \in {q \in longest \X S : q[2] \notin ToSet(q[1])}}

(***************************************************************************)
(* Workflow dicts given to AutomationClusterer.load_workflows              *)
(***************************************************************************)
str_pr_review == <<"P","R"," ","R","e","v","i","e","w">>
str_code_review == <<"C","o","d","e"," ","R","e","v","i","e","w">>
str_pull_request == <<"p","u","l","l","_","r","e","q","u","e","s","t">>

WorkflowDict(name, triggers, file_path) ==
  [name |-> name, description |-> <<>>, file_path |-> file_path,
   triggers |-> triggers, actions |-> <<>>, tags |-> <<>>]

\* the two differ in one word of the name; a batch may hold a dict twice
WorkflowDicts ==
  {WorkflowDict(str_pr_review, <<str_pull_request>>, "a.yml"),
   WorkflowDict(str_code_review, <<str_pull_request>>, "c.yml")}

RECURSIVE SeqsUpTo(_, _)
SeqsUpTo(S, n) ==
  IF n = 0 THEN {<<>>}
  ELSE LET shorter == SeqsUpTo(S, n - 1)
       IN shorter \cup {Append(q, x) : q \in {u \in shorter : Len(u) = n - 1}, x \in S}

Batches == SeqsUpTo(WorkflowDicts, MaxBatch)

MaxPoints == 4   \* most workflows in the file given to main

\* the input file of main: the two dicts above and one that shares no term with them
MainDicts == WorkflowDicts \cup {WorkflowDict(str_deploy_app, <<str_push>>, "d.yml")}

MainBatches == SeqsUpTo(MainDicts, MaxPoints) \ {<<>>}

(***************************************************************************)
(* ZynxConsolidationAgentV2: clustering and consolidation                  *)
(***************************************************************************)
MaxMembers == 3      \* most workflows parsed in a run that consolidates
MaxAnnotations == 1  \* most memories, and most prompts, loaded in such a run

str_run_directive == <<"r","u","n",":">>
str_run_label == <<"R","u","n",":"," ">>
str_action_label == <<"A","c","t","i","o","n",":"," ">>
str_ellipsis == <<".",".",".">>
str_enabled == <<"_","E","N","A","B","L","E","D">>
str_emotion == <<"_","E","M","O","T","I","O","N">>
str_reasoning_score == <<"_","R","E","A","S","O","N","I","N","G","_","S","C","O","R","E">>
str_ubuntu_latest == <<"u","b","u","n","t","u","-","l","a","t","e","s","t">>

\* the keyword lists of _determine_enhanced_cluster, in the order tested
ClusterKeywords ==
  << [cluster |-> "PR Management",
      keywords |-> <<kw_pull_request, kw_pr, kw_review, kw_merge>>],
     [cluster |-> "Deployment",
      keywords |-> <<kw_deploy, kw_release, kw_build, kw_publish>>],
     [cluster |-> "Memory Debugger",
      keywords |-> <<kw_debug, kw_memory, kw_log, kw_monitor>>],
     [cluster |-> "MVP Testing",
      keywords |-> <<kw_test, kw_validate, kw_check, kw_verify>>] >>

DefaultCluster == "General Automation"

\* the text _determine_enhanced_cluster searches
ClusterContent(workflow) ==
  LET content == workflow.name \o <<" ">> \o workflow.description \o <<" ">>
                   \o Join(<<" ">>, workflow.actions)
      with_memory == IF workflow.memory_context /= <<>>
                       THEN Lower(content) \o <<" ">> \o Lower(workflow.memory_context)
                       ELSE Lower(content)
  IN IF workflow.mcp_context /= <<>>
       THEN with_memory \o <<" ">> \o Lower(workflow.mcp_context)
       ELSE with_memory

\* any(keyword in content_lower for keyword in keywords)
AnyKeywordIn(keywords, content_lower) ==
  \E i \in 1..Len(keywords) : IsSubstring(keywords[i], content_lower)

\* the last list with a keyword in the content
DetermineEnhancedCluster_LastHit(workflow) ==
  LET content_lower == ClusterContent(workflow)
      hits == {i \in 1..Len(ClusterKeywords) :
                 AnyKeywordIn(ClusterKeywords[i].keywords, content_lower)}
  IN IF hits = {} THEN DefaultCluster
     ELSE ClusterKeywords[CHOOSE i \in hits : \A j \in hits : i >= j].cluster

\* _determine_enhanced_cluster: the first list with a keyword in the content
DetermineEnhancedCluster(workflow) ==
  LET content_lower == ClusterContent(workflow)
      hits == {i \in 1..Len(ClusterKeywords) :
                 AnyKeywordIn(ClusterKeywords[i].keywords, content_lower)}
  IN IF hits = {} THEN DefaultCluster
     ELSE ClusterKeywords[CHOOSE i \in hits : \A j \in hits : i <= j].cluster

\* cluster_workflows: the dict from cluster key to the workflows with that
\* key, each list in the order of self.workflows
ClusterWorkflowsByKey(wfs) ==
  [cluster_key \in {DetermineEnhancedCluster(wfs[i]) : i \in 1..Len(wfs)} |->
     SelectSeq(wfs, LAMBDA workflow : DetermineEnhancedCluster(workflow) = cluster_key)]

\* the values given to a merged trigger: {'branches': ['main', 'develop']}
\* and {}, each as the list of the dict's items
BranchScope == << <<"branches", <<"main", "develop">>>> >>
EmptyScope == <<>>

\* all_triggers of _merge_triggers
AllTriggers(wfs) == UNION {ToSet(wfs[i].triggers) : i \in 1..Len(wfs)}

\* _merge_triggers reading the triggers of the first workflow only
MergeTriggers_FirstOnly(wfs) ==
  [trigger \in ToSet(wfs[1].triggers) |->
     IF trigger \in {str_push, str_pull_request} THEN BranchScope ELSE EmptyScope]

\* _merge_triggers testing whether the trigger contains one of the two names
MergeTriggers_Contains(wfs) ==
  [trigger \in AllTriggers(wfs) |->
     IF IsSubstring(str_push, Lower(trigger)) \/ IsSubstring(str_pull_request, Lower(trigger))
       THEN BranchScope ELSE EmptyScope]

\* _merge_triggers
MergeTriggers(wfs) ==
  [trigger \in AllTriggers(wfs) |->
     IF trigger \in {str_push, str_pull_request} THEN BranchScope ELSE EmptyScope]

\* str.upper()
Upper(s) ==
  [i \in 1..Len(s) |->
     IF \E u \in DOMAIN UpperToLower : UpperToLower[u] = s[i]
       THEN CHOOSE u \in DOMAIN UpperToLower : UpperToLower[u] = s[i]
       ELSE s[i]]

\* str.replace(old, new) for one-character old and new
Replace(s, old, new) == [i \in 1..Len(s) |-> IF s[i] = old THEN new ELSE s[i]]

DecimalDigits == <<"0", "1", "2", "3", "4", "5", "6", "7", "8", "9">>

\* str(i) of a non-negative int
RECURSIVE IntToStr(_)
IntToStr(i) ==
  IF i < 10 THEN <<DecimalDigits[i + 1]>>
  ELSE IntToStr(i \div 10) \o <<DecimalDigits[(i % 10) + 1]>>

\* str(x) of a float with one decimal, x in tenths
FloatToStr(tenths) == IntToStr(tenths \div 10) \o <<".">> \o IntToStr(tenths % 10)

\* str.find(sub, start): the first position >= start where sub occurs, 0 if none
Find(s, sub, start) ==
  LET at == {i \in start..(Len(s) - Len(sub) + 1) : SubSeq(s, i, i + Len(sub) - 1) = sub}
  IN IF at = {} THEN 0 ELSE CHOOSE i \in at : \A j \in at : i <= j

\* s.split(sep)[1]: the text between the first occurrence of sep and the next
SecondPart(s, sep) ==
  LET first == Find(s, sep, 1)
      rest == SubSeq(s, first + Len(sep), Len(s))
      next == Find(rest, sep, 1)
  IN IF next = 0 THEN rest ELSE SubSeq(rest, 1, next - 1)

\* str.strip()
Strip(s) ==
  LET kept == {i \in 1..Len(s) : s[i] \notin Whitespace}
  IN IF kept = {} THEN <<>>
     ELSE SubSeq(s, CHOOSE i \in kept : \A j \in kept : i <= j,
                    CHOOSE i \in kept : \A j \in kept : j <= i)

\* s[:n]
Take(s, n) == SubSeq(s, 1, Min(n, Len(s)))

NameLimit == 50

\* the loop body of _create_steps_from_actions
StepFromAction(action) ==
  IF IsSubstring(str_run_directive, action)
    THEN LET command == Strip(SecondPart(action, str_run_directive))
         IN [name |-> str_run_label \o Take(command, NameLimit) \o str_ellipsis,
             run |-> command]
    ELSE [name |-> str_action_label \o Take(action, NameLimit) \o str_ellipsis,
          run |-> action]

\* _create_steps_from_actions
CreateStepsFromActions(actions) ==
  [i \in 1..Len(actions) |-> StepFromAction(actions[i])]

\* the key of _merge_jobs without the position
JobName_NoIndex(workflow, i) == Replace(Lower(workflow.name), " ", "_")

\* the key _merge_jobs gives to the workflow at list position i (from 0)
JobName(workflow, i) ==
  Replace(Lower(workflow.name), " ", "_") \o <<"_">> \o IntToStr(i)

\* _merge_jobs: a later workflow with the key of an earlier one replaces it
MergeJobs(wfs) ==
  [job_name \in {JobName(wfs[i], i - 1) : i \in 1..Len(wfs)} |->
     LET last == CHOOSE i \in 1..Len(wfs) :
                   /\ JobName(wfs[i], i - 1) = job_name
                   /\ \A j \in 1..Len(wfs) : JobName(wfs[j], j - 1) = job_name => j <= i
     IN [runs_on |-> str_ubuntu_latest,
         steps |-> CreateStepsFromActions(wfs[last].actions)]]

\* the keys one workflow writes in _merge_environment
EnvKeys(workflow) ==
  {Upper(workflow.name) \o str_enabled}
    \cup (IF workflow.emotion /= "" THEN {Upper(workflow.name) \o str_emotion} ELSE {})
    \cup (IF workflow.reasoning_score > 0
            THEN {Upper(workflow.name) \o str_reasoning_score} ELSE {})

\* the value one workflow writes under a key
EnvValue(workflow, key) ==
  IF key = Upper(workflow.name) \o str_enabled THEN "true"
  ELSE IF key = Upper(workflow.name) \o str_emotion THEN workflow.emotion
  ELSE FloatToStr(workflow.reasoning_score)

\* _merge_environment: a later workflow writing a key of an earlier one replaces it
MergeEnvironment(wfs) ==
  [key \in UNION {EnvKeys(wfs[i]) : i \in 1..Len(wfs)} |->
     LET last == CHOOSE i \in 1..Len(wfs) :
                   /\ key \in EnvKeys(wfs[i])
                   /\ \A j \in 1..Len(wfs) : key \in EnvKeys(wfs[j]) => j <= i
     IN EnvValue(wfs[last], key)]

\* _extract_memory_context; list(set(...)) is kept as the set
ExtractMemoryContext(wfs) ==
  [emotions |-> {wfs[i].emotion : i \in {j \in 1..Len(wfs) : wfs[j].emotion /= ""}},
   deeja_tags |-> {wfs[i].deeja_tag : i \in {j \in 1..Len(wfs) : wfs[j].deeja_tag /= ""}},
   memory_ids |-> {wfs[i].memory_id : i \in {j \in 1..Len(wfs) : wfs[j].memory_id /= ""}}]

RECURSIVE Sum(_)
Sum(scores) == IF scores = <<>> THEN 0 ELSE Head(scores) + Sum(Tail(scores))

Max(a, b) == IF a >= b THEN a ELSE b

\* _extract_prompt_context; the average is the ratio <<sum, count>>
ExtractPromptContext(wfs) ==
  LET scored == SelectSeq(wfs, LAMBDA workflow : workflow.reasoning_score > 0)
      reasoning_scores == [i \in 1..Len(scored) |-> scored[i].reasoning_score]
  IN [prompt_ids |-> {wfs[i].prompt_id : i \in {j \in 1..Len(wfs) : wfs[j].prompt_id /= ""}},
      reasoning_scores |-> reasoning_scores,
      average_reasoning_score |-> <<Sum(reasoning_scores), Max(1, Len(scored))>>]

\* _create_enhanced_consolidated_workflow: the dict handed to yaml.dump
CreateEnhancedConsolidatedWorkflow(cluster_name, wfs) ==
  [name |-> <<"Zynx ", cluster_name, " Master Workflow">>,
   description |-> <<"Consolidated workflow for ", cluster_name,
                     " operations with memory context">>,
   on |-> MergeTriggers(wfs),
   jobs |-> MergeJobs(wfs),
   env |-> MergeEnvironment(wfs),
   memory_context |-> ExtractMemoryContext(wfs),
   prompt_context |-> ExtractPromptContext(wfs)]

\* consolidate_workflows without the `len(workflows) > 1` test
ConsolidateClusters_All(clstrs) ==
  [cluster_name \in DOMAIN clstrs |->
     CreateEnhancedConsolidatedWorkflow(cluster_name, clstrs[cluster_name])]

\* consolidate_workflows: the clusters with more than one workflow
ConsolidateClusters(clstrs) ==
  [cluster_name \in {c \in DOMAIN clstrs : Len(clstrs[c]) > 1} |->
     CreateEnhancedConsolidatedWorkflow(cluster_name, clstrs[cluster_name])]

(***************************************************************************)
(* Workflows and records of a run that consolidates                        *)
(***************************************************************************)
str_Push == <<"P","u","s","h">>
str_pull_request_target == <<"p","u","l","l","_","r","e","q","u","e","s","t","_","t","a","r","g","e","t">>
str_release == <<"R","e","l","e","a","s","e">>
str_npm_test == <<"n","p","m"," ","t","e","s","t">>
str_run_lint == <<"r","u","n",":"," ","l","i","n","t">>
str_run_make_run_ship == <<"r","u","n",":"," ","m","a","k","e"," ","r","u","n",":"," ","s","h","i","p">>

WithActions(workflow, actions) == [workflow EXCEPT !.actions = actions]

wf_pr_review ==
  WithActions(EnhancedAutomationWorkflow("pr.yml", str_pr_review, <<>>,
                                         <<str_pull_request, str_push>>),
              <<str_npm_test>>)
\* a second file with the name of the first
wf_pr_review_copy ==
  WithActions(EnhancedAutomationWorkflow("pr2.yml", str_pr_review, <<>>, <<str_push>>),
              <<str_npm_test>>)
wf_code_review ==
  WithActions(EnhancedAutomationWorkflow("review.md", str_code_review, <<>>,
                                         <<str_Push, str_pull_request_target>>),
              <<str_run_lint>>)
wf_release ==
  WithActions(EnhancedAutomationWorkflow("release.md", str_release, <<>>, <<str_on_push>>),
              <<str_run_make_run_ship>>)

\* a name that ends as a job key does
str_pr_review_1 == <<"P","R"," ","R","e","v","i","e","w","_","1">>
wf_pr_review_1 ==
  WithActions(EnhancedAutomationWorkflow("pr3.yml", str_pr_review_1, <<>>, <<str_pull_request>>),
              <<>>)

ConsolidatedInputs ==
  {wf_pr_review, wf_pr_review_copy, wf_pr_review_1, wf_code_review, wf_deploy, wf_release,
   wf_mvp}

\* workflows for each of the five cluster keys
str_deploy_preview == <<"D","e","p","l","o","y"," ","P","r","e","v","i","e","w">>
str_log_monitor == <<"L","o","g"," ","M","o","n","i","t","o","r">>
str_nightly_sync == <<"N","i","g","h","t","l","y"," ","S","y","n","c">>
\* 'pr' inside a word, and a keyword of the second list
wf_deploy_preview ==
  EnhancedAutomationWorkflow("preview.yml", str_deploy_preview, <<>>, <<str_push>>)
wf_log_monitor ==
  EnhancedAutomationWorkflow("monitor.yml", str_log_monitor, <<>>, <<str_push>>)
\* no keyword of any list
wf_nightly_sync ==
  EnhancedAutomationWorkflow("sync.yml", str_nightly_sync, <<>>, <<str_workflow_dispatch>>)

ClusteredInputs ==
  {wf_pr_review, wf_deploy_preview, wf_deploy, wf_log_monitor, wf_mvp, wf_nightly_sync}

\* task type inside the names of the two review workflows
prompt_review == MCPPrompt("p5", kw_review, <<>>, <<>>, 8, <<>>)

ConsolidatedMemories == {mem_trigger, mem_task}
ConsolidatedPrompts == {prompt_tag, prompt_review}

(***************************************************************************)
(* cosine_similarity of two rows, as _calculate_cluster_similarity calls it *)
(***************************************************************************)
MaxWeight == 2   \* largest weight of a vector given to cosine_similarity on its own
MaxDim == 2      \* number of terms of such a vector

RECURSIVE Dot(_, _)
Dot(a, b) == IF a = <<>> THEN 0 ELSE Head(a) * Head(b) + Dot(Tail(a), Tail(b))

\* the dot product of the rows without normalising them
CosineSimilarity_Unnormalised(a, b) == <<Dot(a, b), 1>>

\* cosine_similarity(a, b)[0][0]: each row is divided by its norm, a row of
\* norm 0 is left as it is, and the result is the dot product of the two.
\* The value is kept as <<n, d>>, standing for n / sqrt(d).
CosineSimilarity(a, b) ==
  IF Dot(a, a) = 0 \/ Dot(b, b) = 0 THEN <<0, 1>>
  ELSE <<Dot(a, b), Dot(a, a) * Dot(b, b)>>

RECURSIVE VectorsOf(_, _)
VectorsOf(weights, dim) ==
  IF dim = 0 THEN {<<>>}
  ELSE {Append(v, w) : v \in VectorsOf(weights, dim - 1), w \in weights}

Vectors == VectorsOf((-1)..MaxWeight, MaxDim)

(***************************************************************************)
(* Workflow dicts given to _determine_cluster_type on its own              *)
(***************************************************************************)
MaxTyped == 3    \* most workflows of a cluster given to _determine_cluster_type

str_review == <<"R","e","v","i","e","w">>
str_build == <<"b","u","i","l","d">>
str_verify == <<"v","e","r","i","f","y">>
str_deploy_test == <<"d","e","p","l","o","y"," ","t","e","s","t">>

TypedDict(name, description, actions) ==
  [name |-> name, description |-> description, file_path |-> "t.yml",
   triggers |-> <<>>, actions |-> actions, tags |-> <<>>]

\* no text at all; one PR keyword; a Deployment and a Testing keyword (twice);
\* a Testing and a Memory Debugger keyword
TypedDicts ==
  {TypedDict(<<>>, <<>>, <<>>),
   TypedDict(str_review, <<>>, <<>>),
   TypedDict(str_build, str_verify, <<>>),
   TypedDict(str_deploy_test, <<>>, <<>>),
   TypedDict(kw_test, <<>>, <<kw_log>>)}

NoLabel == ""

(***************************************************************************)
(* The review scenario: two review workflows and two deployment workflows  *)
(***************************************************************************)
str_code_review_bot == <<"C","o","d","e"," ","R","e","v","i","e","w"," ","B","o","t">>
str_run_npm_test == <<"r","u","n",":"," ","n","p","m"," ","t","e","s","t">>
str_run_npm_run_lint == <<"r","u","n",":"," ","n","p","m"," ","r","u","n"," ","l","i","n","t">>
str_uses_checkout == <<"u","s","e","s",":"," ","a","c","t","i","o","n","s","/","c","h","e","c","k","o","u","t","@","v","3">>
str_deploy_staging == <<"D","e","p","l","o","y"," ","S","t","a","g","i","n","g">>
str_deploy_docs == <<"D","e","p","l","o","y"," ","D","o","c","s">>

\* name and actions of the four workflows; each is triggered by pull_request
ScenarioFiles ==
  {[file_path |-> "pr-review.yml", name |-> str_pr_review,
    actions |-> <<str_run_npm_test, str_run_npm_run_lint>>],
   [file_path |-> "review-bot.yml", name |-> str_code_review_bot,
    actions |-> <<str_uses_checkout>>],
   [file_path |-> "staging.yml", name |-> str_deploy_staging,
    actions |-> <<str_run_npm_test, str_run_npm_run_lint>>],
   [file_path |-> "docs.yml", name |-> str_deploy_docs,
    actions |-> <<str_run_npm_test, str_run_npm_run_lint>>]}

\* as dicts of the input file of the clusterer script
ScenarioDicts ==
  {[WorkflowDict(f.name, <<str_pull_request>>, f.file_path) EXCEPT !.actions = f.actions] :
     f \in ScenarioFiles}

\* as parsed by the agent
ScenarioWorkflows ==
  {WithActions(EnhancedAutomationWorkflow(f.file_path, f.name, <<>>, <<str_pull_request>>),
               f.actions) : f \in ScenarioFiles}

\* the lists that hold each element of S once
Orderings(S) == {l \in ListsUpTo(S, Cardinality(S)) : Len(l) = Cardinality(S)}

\* k of the scenario
ScenarioClusters == 2

(***************************************************************************)
(* State                                                                   *)
(***************************************************************************)
VARIABLES
  simText1, simText2,   \* arguments of a _similarity_score call
  simResult,            \* its return value, NoResult before the call
  typeWorkflows,        \* argument of a _determine_cluster_type call
  typeResult,           \* its return value, NoLabel before the call
  vectorA, vectorB,     \* the rows of a cosine_similarity call
  cosineResult,         \* its value, NoResult before the call
  workflows,            \* AutomationClusterer.workflows
  feature_vectors,      \* AutomationClusterer.feature_vectors
  clusters,             \* AutomationClusterer.clusters
  lastCall,             \* the last call on the clusterer: arguments, what it read, outcome
  agent_workflows,      \* ZynxConsolidationAgentV2.workflows
  deeja_memories,       \* ZynxConsolidationAgentV2.deeja_memories
  mcp_prompts,          \* ZynxConsolidationAgentV2.mcp_prompts
  agent_clusters,       \* ZynxConsolidationAgentV2.clusters
  consolidated_workflows, \* the local of run that holds the result of consolidate_workflows
  pc,                   \* the statement of ZynxConsolidationAgentV2.run to execute next
  memory_files,         \* the entries of the logs under memory_path, in reading order
  prompt_files,         \* the entries of the files under prompt_path, in reading order
  workflow_files,       \* the workflows that the files of the workspace parse to
  calls                 \* the enrichment methods a caller other than run has called, in order

typeVars == <<typeWorkflows, typeResult>>
cosineVars == <<vectorA, vectorB, cosineResult>>
\* the arguments and results of the functions called on their own
simVars == <<simText1, simText2, simResult, typeVars, cosineVars>>
clustererVars == <<workflows, feature_vectors, clusters, lastCall>>
\* what the agent is given: the files and the calls of its caller
filesVars == <<memory_files, prompt_files, workflow_files, calls>>
outputVars == <<agent_clusters, consolidated_workflows>>
agentVars == <<agent_workflows, deeja_memories, mcp_prompts, pc, filesVars, outputVars>>
vars == <<simVars, clustererVars, agentVars>>

InitTypeIdle == typeWorkflows = <<>> /\ typeResult = NoLabel

InitCosineIdle == vectorA = <<>> /\ vectorB = <<>> /\ cosineResult = NoResult

InitSimIdle ==
  /\ simText1 = <<>> /\ simText2 = <<>> /\ simResult = NoResult
  /\ InitTypeIdle
  /\ InitCosineIdle

\* AutomationClusterer.__init__
InitClusterer ==
  /\ workflows = <<>>
  /\ feature_vectors = None
  /\ clusters = <<>>
  /\ lastCall = [op |-> "__init__"]

(***************************************************************************)
(* AutomationClusterer operations                                          *)
(***************************************************************************)
LoadWorkflows(workflows_data) ==
  /\ workflows' = workflows_data
  /\ lastCall' = [op |-> "load_workflows"]
  /\ UNCHANGED <<feature_vectors, clusters, simVars, agentVars>>

\* the call raised: self.clusters keeps its value
Raise(method, n_clusters, fv, exception) ==
  /\ feature_vectors' = fv
  /\ clusters' = clusters
  /\ lastCall' = [op |-> "cluster_by_similarity", method |-> method,
                  n_clusters |-> n_clusters, workflows |-> workflows,
                  vectors |-> fv, outcome |-> exception, returned |-> NoResult,
                  labels |-> <<>>]

\* the call returned the list built from the labels
Return(method, n_clusters, fv, cluster_labels, skip) ==
  IF GroupingRaises(cluster_labels, workflows, skip)
    THEN Raise(method, n_clusters, fv, "IndexError")
    ELSE LET result == GroupByLabel(cluster_labels, workflows, skip, fv)
         IN /\ feature_vectors' = fv
            /\ clusters' = result
            /\ lastCall' = [op |-> "cluster_by_similarity", method |-> method,
                            n_clusters |-> n_clusters, workflows |-> workflows,
                            vectors |-> fv, outcome |-> "ok", returned |-> result,
                            labels |-> cluster_labels]

ClusterBySimilarity(method, n_clusters) ==
  /\ UNCHANGED <<workflows, simVars, agentVars>>
  /\ IF feature_vectors = None /\ EmptyVocabulary(WorkflowTexts(workflows))
       THEN Raise(method, n_clusters, None, "ValueError")
       ELSE LET fv == IF feature_vectors = None
                        THEN FitTransform(WorkflowTexts(workflows))
                        ELSE feature_vectors
            IN CASE method = "kmeans" ->
                      IF KMeansRejects(fv, n_clusters)
                        THEN Raise(method, n_clusters, fv, "ValueError")
                        ELSE \E cluster_labels \in KMeansLabels(fv, n_clusters) :
                               Return(method, n_clusters, fv, cluster_labels, NoSkip)
                 [] method = "dbscan" ->
                      \E cluster_labels \in DBSCANLabels(fv) :
                        Return(method, n_clusters, fv, cluster_labels, -1)
                 [] OTHER -> Raise(method, n_clusters, fv, "ValueError")

NextClusterer ==
  \/ \E workflows_data \in Batches : LoadWorkflows(workflows_data)
  \/ \E n_clusters \in 0..(MaxBatch + 1) : ClusterBySimilarity("kmeans", n_clusters)
  \/ \E method \in Methods \ {"kmeans"} : ClusterBySimilarity(method, DefaultClusters)

\* ZynxConsolidationAgentV2.__init__
InitAgent ==
  /\ agent_workflows = <<>>
  /\ deeja_memories = <<>>
  /\ mcp_prompts = <<>>
  /\ agent_clusters = [cluster_key \in {} |-> <<>>]
  /\ consolidated_workflows = [cluster_name \in {} |-> <<>>]
  /\ pc = "load_deeja_memories"
  /\ calls = <<>>

\* nothing on disk
InitNoFiles == memory_files = <<>> /\ prompt_files = <<>> /\ workflow_files = <<>>

Init == InitClusterer /\ InitSimIdle /\ InitAgent /\ InitNoFiles

Spec == Init /\ [][NextClusterer]_vars

\* main: clusterer.load_workflows(workflows_data) on the new clusterer
MainLoadWorkflows ==
  /\ lastCall.op = "__init__"
  /\ \E workflows_data \in MainBatches : LoadWorkflows(workflows_data)

\* main: clusterer.cluster_by_similarity('kmeans', args.clusters)
MainKMeans ==
  /\ lastCall.op = "load_workflows"
  /\ \E n_clusters \in 1..MaxPoints : ClusterBySimilarity("kmeans", n_clusters)

\* main: clusterer.cluster_by_similarity('dbscan')
MainDBSCAN ==
  /\ lastCall.op = "load_workflows"
  /\ ClusterBySimilarity("dbscan", DefaultClusters)

NextMain ==
  \/ MainLoadWorkflows
  \/ MainKMeans
  \/ MainDBSCAN

SpecMain == Init /\ [][NextMain]_vars

(***************************************************************************)
(* ZynxConsolidationAgentV2 operations                                     *)
(***************************************************************************)
\* run, step 1: load_deeja_memories, the entries read from the memory logs
\* replace the list
LoadDeejaMemories ==
  /\ pc = "load_deeja_memories"
  /\ deeja_memories' = memory_files
  /\ pc' = "load_mcp_prompts"
  /\ UNCHANGED <<agent_workflows, mcp_prompts, filesVars, outputVars, simVars, clustererVars>>

\* run, step 1: load_mcp_prompts
LoadMcpPrompts ==
  /\ pc = "load_mcp_prompts"
  /\ mcp_prompts' = prompt_files
  /\ pc' = "parse_workflows"
  /\ UNCHANGED <<agent_workflows, deeja_memories, filesVars, outputVars, simVars, clustererVars>>

\* a run that goes from parsing straight to clustering
ParseWorkflows_SkippingEnrichment ==
  /\ pc = "parse_workflows"
  /\ agent_workflows' = workflow_files
  /\ pc' = "cluster_workflows"
  /\ UNCHANGED <<deeja_memories, mcp_prompts, filesVars, outputVars, simVars, clustererVars>>

\* run, steps 2 and 3: scan_workspace and parse_workflows, the workflows
\* parsed from the files replace the list
ParseWorkflows ==
  /\ pc = "parse_workflows"
  /\ agent_workflows' = workflow_files
  /\ pc' = "enrich_workflows_with_memory"
  /\ UNCHANGED <<deeja_memories, mcp_prompts, filesVars, outputVars, simVars, clustererVars>>

\* run, step 4: self.workflows = self.enrich_workflows_with_memory(self.workflows)
EnrichWorkflowsWithMemory ==
  /\ pc = "enrich_workflows_with_memory"
  /\ agent_workflows' = [i \in 1..Len(agent_workflows) |->
                           EnrichWithMemory(agent_workflows[i], deeja_memories)]
  /\ pc' = "enrich_workflows_with_prompts"
  /\ UNCHANGED <<deeja_memories, mcp_prompts, filesVars, outputVars, simVars, clustererVars>>

\* run, step 4: self.workflows = self.enrich_workflows_with_prompts(self.workflows)
EnrichWorkflowsWithPrompts ==
  /\ pc = "enrich_workflows_with_prompts"
  /\ agent_workflows' = [i \in 1..Len(agent_workflows) |->
                           EnrichWithPrompt(agent_workflows[i], mcp_prompts)]
  /\ pc' = "cluster_workflows"
  /\ UNCHANGED <<deeja_memories, mcp_prompts, filesVars, outputVars, simVars, clustererVars>>

\* the agent in a workspace with some records and workflows on disk
InitMatcher ==
  /\ InitClusterer
  /\ InitSimIdle
  /\ InitAgent
  /\ memory_files \in ListsUpTo(MemoryRecords, MaxRecords)
  /\ prompt_files \in ListsUpTo(PromptRecords, MaxRecords)
  /\ Len(memory_files) + Len(prompt_files) <= MaxRecords
  /\ workflow_files \in ListsUpTo(ParsedWorkflows, MaxWorkflows)

NextMatcher ==
  \/ LoadDeejaMemories
  \/ LoadMcpPrompts
  \/ ParseWorkflows
  \/ EnrichWorkflowsWithMemory
  \/ EnrichWorkflowsWithPrompts

SpecMatcher == InitMatcher /\ [][NextMatcher]_vars

\* a caller other than run: agent.enrich_workflows_with_memory(agent.workflows)
\* after the loading and parsing steps; the method changes the workflows
\* of the list in place
CallEnrichWorkflowsWithMemory ==
  /\ pc = "enrich_workflows_with_memory"
  /\ Len(calls) < MaxCalls
  /\ agent_workflows' = [i \in 1..Len(agent_workflows) |->
                           EnrichWithMemory(agent_workflows[i], deeja_memories)]
  /\ calls' = Append(calls, "enrich_workflows_with_memory")
  /\ UNCHANGED <<deeja_memories, mcp_prompts, pc, memory_files, prompt_files,
                 workflow_files, outputVars, simVars, clustererVars>>

\* a caller other than run: agent.enrich_workflows_with_prompts(agent.workflows)
CallEnrichWorkflowsWithPrompts ==
  /\ pc = "enrich_workflows_with_memory"
  /\ Len(calls) < MaxCalls
  /\ agent_workflows' = [i \in 1..Len(agent_workflows) |->
                           EnrichWithPrompt(agent_workflows[i], mcp_prompts)]
  /\ calls' = Append(calls, "enrich_workflows_with_prompts")
  /\ UNCHANGED <<deeja_memories, mcp_prompts, pc, memory_files, prompt_files,
                 workflow_files, outputVars, simVars, clustererVars>>

\* the agent in a workspace with records of equal score and records and
\* workflows with empty fields
InitEnrich ==
  /\ InitClusterer
  /\ InitSimIdle
  /\ InitAgent
  /\ memory_files \in ListsUpTo(TiedMemories, MaxRecords)
  /\ prompt_files \in ListsUpTo(TiedPrompts, MaxRecords)
  /\ Len(memory_files) + Len(prompt_files) <= MaxRecords
  /\ workflow_files \in ListsUpTo(EnrichedInputs, MaxWorkflows)

NextEnrich ==
  \/ LoadDeejaMemories
  \/ LoadMcpPrompts
  \/ ParseWorkflows
  \/ CallEnrichWorkflowsWithMemory
  \/ CallEnrichWorkflowsWithPrompts

SpecEnrich == InitEnrich /\ [][NextEnrich]_vars

\* run, step 5: cluster_workflows
ClusterWorkflows ==
  /\ pc = "cluster_workflows"
  /\ agent_clusters' = ClusterWorkflowsByKey(agent_workflows)
  /\ pc' = "consolidate_workflows"
  /\ UNCHANGED <<agent_workflows, deeja_memories, mcp_prompts, filesVars,
                 consolidated_workflows, simVars, clustererVars>>

\* run, step 6: the three report generators read the agent and change
\* nothing; consolidate_workflows builds the result from self.clusters
ConsolidateWorkflows ==
  /\ pc = "consolidate_workflows"
  /\ consolidated_workflows' = ConsolidateClusters(agent_clusters)
  /\ pc' = "save_outputs"
  /\ UNCHANGED <<agent_workflows, deeja_memories, mcp_prompts, filesVars,
                 agent_clusters, simVars, clustererVars>>

\* the agent in a workspace whose workflows fall into shared clusters
InitConsolidate ==
  /\ InitClusterer
  /\ InitSimIdle
  /\ InitAgent
  /\ memory_files \in ListsUpTo(ConsolidatedMemories, MaxAnnotations)
  /\ prompt_files \in ListsUpTo(ConsolidatedPrompts, MaxAnnotations)
  /\ workflow_files \in ListsUpTo(ConsolidatedInputs, MaxMembers)

\* the agent in a workspace with workflows for every cluster key
InitCluster ==
  /\ InitClusterer
  /\ InitSimIdle
  /\ InitAgent
  /\ memory_files \in ListsUpTo(ConsolidatedMemories, MaxAnnotations)
  /\ prompt_files \in ListsUpTo(ConsolidatedPrompts, MaxAnnotations)
  /\ workflow_files \in ListsUpTo(ClusteredInputs, MaxMembers)

\* run up to its step 5
NextCluster ==
  \/ LoadDeejaMemories
  \/ LoadMcpPrompts
  \/ ParseWorkflows
  \/ EnrichWorkflowsWithMemory
  \/ EnrichWorkflowsWithPrompts
  \/ ClusterWorkflows

SpecCluster == InitCluster /\ [][NextCluster]_vars

NextConsolidate ==
  \/ LoadDeejaMemories
  \/ LoadMcpPrompts
  \/ ParseWorkflows
  \/ EnrichWorkflowsWithMemory
  \/ EnrichWorkflowsWithPrompts
  \/ ClusterWorkflows
  \/ ConsolidateWorkflows

SpecConsolidate == InitConsolidate /\ [][NextConsolidate]_vars

\* the process runs main of cluster_automation.py: no agent is constructed
InitScript ==
  /\ InitClusterer
  /\ InitSimIdle
  /\ InitNoFiles
  /\ agent_workflows = <<>>
  /\ deeja_memories = <<>>
  /\ mcp_prompts = <<>>
  /\ agent_clusters = [cluster_key \in {} |-> <<>>]
  /\ consolidated_workflows = [cluster_name \in {} |-> <<>>]
  /\ pc = "main"
  /\ calls = <<>>

\* main: clusterer.load_workflows(workflows_data) on the new clusterer
ScriptLoadWorkflows ==
  /\ pc = "main"
  /\ lastCall.op = "__init__"
  /\ \E workflows_data \in Batches : LoadWorkflows(workflows_data)

\* main: clusterer.cluster_by_similarity('kmeans', args.clusters)
ScriptKMeans ==
  /\ pc = "main"
  /\ lastCall.op = "load_workflows"
  /\ \E n_clusters \in 1..(MaxBatch + 1) : ClusterBySimilarity("kmeans", n_clusters)

\* main: clusterer.cluster_by_similarity('dbscan')
ScriptDBSCAN ==
  /\ pc = "main"
  /\ lastCall.op = "load_workflows"
  /\ ClusterBySimilarity("dbscan", DefaultClusters)

\* one run of either program: run of the agent or main of the script
InitRuns == InitCluster \/ InitScript

NextRuns ==
  \/ LoadDeejaMemories
  \/ LoadMcpPrompts
  \/ ParseWorkflows
  \/ EnrichWorkflowsWithMemory
  \/ EnrichWorkflowsWithPrompts
  \/ ClusterWorkflows
  \/ ConsolidateWorkflows
  \/ ScriptLoadWorkflows
  \/ ScriptKMeans
  \/ ScriptDBSCAN

SpecRuns == InitRuns /\ [][NextRuns]_vars

\* the agent in a workspace that holds the four workflows of the scenario
InitScenarioAgent ==
  /\ InitClusterer
  /\ InitSimIdle
  /\ InitAgent
  /\ memory_files \in ListsUpTo(ConsolidatedMemories, MaxAnnotations)
  /\ prompt_files \in ListsUpTo(ConsolidatedPrompts, MaxAnnotations)
  /\ workflow_files \in Orderings(ScenarioWorkflows)

\* main: the input file holds the four workflows of the scenario
ScenarioLoadWorkflows ==
  /\ pc = "main"
  /\ lastCall.op = "__init__"
  /\ \E workflows_data \in Orderings(ScenarioDicts) : LoadWorkflows(workflows_data)

\* main with --method kmeans --clusters 2
ScenarioKMeans ==
  /\ pc = "main"
  /\ lastCall.op = "load_workflows"
  /\ ClusterBySimilarity("kmeans", ScenarioClusters)

\* the scenario given to the agent, or to the clusterer script
InitScenario == InitScenarioAgent \/ InitScript

NextScenario ==
  \/ LoadDeejaMemories
  \/ LoadMcpPrompts
  \/ ParseWorkflows
  \/ EnrichWorkflowsWithMemory
  \/ EnrichWorkflowsWithPrompts
  \/ ClusterWorkflows
  \/ ConsolidateWorkflows
  \/ ScenarioLoadWorkflows
  \/ ScenarioKMeans

SpecScenario == InitScenario /\ [][NextScenario]_vars

(***************************************************************************)
(* Properties of AutomationClusterer                                       *)
(***************************************************************************)
IsClusterCall == lastCall.op = "cluster_by_similarity"

\* the positions of self.workflows found in the clusters of a returned list
IndicesIn(cluster) == ToSet(cluster.indices)

\* C1: after cluster_by_similarity('kmeans', k) on n loaded workflows with
\* 1 <= k <= n the call returns exactly k clusters, none of them empty, no
\* workflow is in two clusters and every loaded workflow is in one.
KMeansPartitionsInput ==
  (/\ IsClusterCall
   /\ lastCall.method = "kmeans"
   /\ 1 <= lastCall.n_clusters
   /\ lastCall.n_clusters <= Len(lastCall.workflows))
  => /\ lastCall.outcome = "ok"
     /\ Len(lastCall.returned) = lastCall.n_clusters
     /\ \A c \in 1..Len(lastCall.returned) : lastCall.returned[c].workflows /= <<>>
     /\ \A c, d \in 1..Len(lastCall.returned) :
          c /= d => IndicesIn(lastCall.returned[c]) \cap IndicesIn(lastCall.returned[d]) = {}
     /\ \A i \in 1..Len(lastCall.workflows) :
          \E c \in 1..Len(lastCall.returned) : i \in IndicesIn(lastCall.returned[c])

\* C2: every cluster_by_similarity call clusters the feature vectors of the
\* workflow list loaded at the time of the call, one row per workflow; rows
\* extracted for an earlier batch are never used.
ClusteringUsesCurrentVectors ==
  (IsClusterCall /\ lastCall.outcome = "ok")
    => lastCall.vectors = FitTransform(WorkflowTexts(lastCall.workflows))

Returned == lastCall.returned

Rows == lastCall.vectors.tf

ReturnedBy(method) == IsClusterCall /\ lastCall.method = method /\ lastCall.outcome = "ok"

\* C18: after cluster_by_similarity('dbscan') no workflow is in two
\* clusters, a workflow labelled noise (-1) is in no cluster, and no
\* returned cluster is empty.
DBSCANClustersAreDisjoint ==
  ReturnedBy("dbscan") =>
    /\ \A c, d \in 1..Len(Returned) :
         c /= d => /\ IndicesIn(Returned[c]) \cap IndicesIn(Returned[d]) = {}
                   /\ ToSet(Returned[c].workflows) \cap ToSet(Returned[d].workflows) = {}
    /\ \A i \in 1..Len(lastCall.labels) :
         lastCall.labels[i] = -1 =>
           \A c \in 1..Len(Returned) :
             /\ i \notin IndicesIn(Returned[c])
             /\ lastCall.workflows[i] \notin ToSet(Returned[c].workflows)
    /\ \A c \in 1..Len(Returned) : Returned[c].workflows /= <<>>

\* DBSCAN returned two clusters
DBSCANWitness ==
  /\ ReturnedBy("dbscan")
  /\ Len(Returned) >= 2
  /\ \E c \in 1..Len(Returned) : Len(Returned[c].workflows) >= 2

\* the pairs of distinct members of a cluster, as positions of self.workflows
MemberPairs(cluster) ==
  {p \in IndicesIn(cluster) \X IndicesIn(cluster) : p[1] < p[2]}

\* the cosine similarities that are equal whatever the weights: those of
\* the same two rows, in either order
SameTerm(rows, a, b) == {rows[1], rows[2]} = {a, b}

\* C19: the similarity_score of every returned cluster is 1.0 when the
\* cluster has one member, and otherwise the mean of the cosine similarity
\* over the unordered pairs of distinct members, one term per pair; it lies
\* in [0, 1]. Members equal as records to other loaded workflows included.
CohesionIsMeanOverPairs ==
  (IsClusterCall /\ lastCall.outcome = "ok") =>
    \A c \in 1..Len(Returned) :
      LET cluster == Returned[c]
          terms == cluster.similarity_score.mean_of
      IN IF Len(cluster.workflows) = 1
           THEN cluster.similarity_score.value = "1.0"
           ELSE /\ cluster.similarity_score.value = "mean"
                /\ Len(terms) = Cardinality(MemberPairs(cluster))
                /\ \A p \in MemberPairs(cluster) :
                     Cardinality({t \in 1..Len(terms) :
                                    SameTerm(terms[t], Rows[p[1]], Rows[p[2]])})
                       = Cardinality({q \in MemberPairs(cluster) :
                                        SameTerm(<<Rows[q[1]], Rows[q[2]]>>,
                                                 Rows[p[1]], Rows[p[2]])})
                /\ \A t \in 1..Len(terms) : \A k \in DOMAIN terms[t][1] :
                     terms[t][1][k] >= 0 /\ terms[t][2][k] >= 0

\* a cluster of three or more members, two of them equal as records and one
\* different, returned beside a cluster of one member
CohesionWitness ==
  /\ IsClusterCall /\ lastCall.outcome = "ok"
  /\ \E c \in 1..Len(Returned) : Len(Returned[c].workflows) = 1
  /\ \E c \in 1..Len(Returned) :
       LET wfs == Returned[c].workflows
       IN /\ Len(wfs) >= 3
          /\ \E i, j \in 1..Len(wfs) : i < j /\ wfs[i] = wfs[j]
          /\ \E i, j \in 1..Len(wfs) : wfs[i] /= wfs[j]

(***************************************************************************)
(* _similarity_score on its own: every pair of short texts                 *)
(***************************************************************************)
SimAlphabet == {"a", "A", "b", " "}

RECURSIVE TextsUpTo(_)
TextsUpTo(n) ==
  IF n = 0 THEN {<<>>}
  ELSE LET shorter == TextsUpTo(n - 1)
       IN shorter \cup {Append(t, c) : t \in {u \in shorter : Len(u) = n - 1}, c \in SimAlphabet}

SimTexts == TextsUpTo(MaxLen)

InitSim ==
  /\ InitClusterer
  /\ InitAgent
  /\ InitNoFiles
  /\ simText1 \in SimTexts
  /\ simText2 \in SimTexts
  /\ simResult = NoResult
  /\ InitTypeIdle
  /\ InitCosineIdle

CallSimilarityScore ==
  /\ simResult = NoResult
  /\ simResult' = SimilarityScore(simText1, simText2)
  /\ UNCHANGED <<simText1, simText2, typeVars, cosineVars, clustererVars, agentVars>>

NextSim == CallSimilarityScore

SpecSim == InitSim /\ [][NextSim]_vars

(***************************************************************************)
(* _determine_cluster_type on its own: every short list of the dicts       *)
(***************************************************************************)
InitType ==
  /\ InitClusterer
  /\ InitAgent
  /\ InitNoFiles
  /\ simText1 = <<>> /\ simText2 = <<>> /\ simResult = NoResult
  /\ InitCosineIdle
  /\ typeWorkflows \in SeqsUpTo(TypedDicts, MaxTyped) \ {<<>>}
  /\ typeResult = NoLabel

CallDetermineClusterType ==
  /\ typeResult = NoLabel
  /\ typeResult' = DetermineClusterType(typeWorkflows)
  /\ UNCHANGED <<typeWorkflows, simText1, simText2, simResult, cosineVars,
                 clustererVars, agentVars>>

NextType == CallDetermineClusterType

SpecType == InitType /\ [][NextType]_vars

(***************************************************************************)
(* cosine_similarity on its own: every pair of small vectors               *)
(***************************************************************************)
InitCosine ==
  /\ InitClusterer
  /\ InitAgent
  /\ InitNoFiles
  /\ simText1 = <<>> /\ simText2 = <<>> /\ simResult = NoResult
  /\ InitTypeIdle
  /\ vectorA \in Vectors
  /\ vectorB \in Vectors
  /\ cosineResult = NoResult

CallCosineSimilarity ==
  /\ cosineResult = NoResult
  /\ cosineResult' = CosineSimilarity(vectorA, vectorB)
  /\ UNCHANGED <<vectorA, vectorB, simText1, simText2, simResult, typeVars,
                 clustererVars, agentVars>>

NextCosine == CallCosineSimilarity

SpecCosine == InitCosine /\ [][NextCosine]_vars

(***************************************************************************)
(* Properties of _similarity_score                                         *)
(***************************************************************************)
\* the set of lower-cased whitespace-separated tokens of a text: the maximal
\* runs of non-whitespace characters
TokenSet(text) ==
  LET t == Lower(text)
      starts == {i \in 1..Len(t) : t[i] \notin Whitespace /\ (i = 1 \/ t[i - 1] \in Whitespace)}
      ends == {j \in 1..Len(t) : t[j] \notin Whitespace /\ (j = Len(t) \/ t[j + 1] \in Whitespace)}
  IN {SubSeq(t, i, CHOOSE j \in ends : j >= i /\ \A k \in ends : k >= i => j <= k) : i \in starts}

\* C7: _similarity_score(t1, t2) is |A \cap B| / |A \cup B| for the token sets
\* A, B of the two texts, 0 when either text is empty or has no token,
\* symmetric, within [0, 1], and 1 exactly when A = B and A is not empty.
SimilarityIsJaccard ==
  simResult /= NoResult =>
    LET A == TokenSet(simText1)
        B == TokenSet(simText2)
        num == simResult[1]
        den == simResult[2]
        back == SimilarityScore(simText2, simText1)
    IN /\ den > 0
       /\ (A = {} \/ B = {}) => num = 0
       /\ (A /= {} /\ B /= {}) =>
            num * Cardinality(A \cup B) = Cardinality(A \cap B) * den
       /\ num * back[2] = back[1] * den
       /\ 0 <= num /\ num <= den
       /\ (num = den) <=> (A = B /\ A /= {})

\* two texts that differ in case and share one of two tokens
SimilarityWitness ==
  /\ simResult = <<1, 2>>
  /\ simText1 /= Lower(simText1)
  /\ TokenSet(simText1) /= TokenSet(simText2)

(***************************************************************************)
(* Properties of the matcher                                               *)
(***************************************************************************)
\* token overlap |A \cap B| / |A \cup B| of two texts above tenths/10
OverlapAbove(text1, text2, tenths) ==
  LET A == TokenSet(text1)
      B == TokenSet(text2)
  IN /\ A /= {} /\ B /= {}
     /\ Cardinality(A \cap B) * 10 > tenths * Cardinality(A \cup B)

SetMax(S) == CHOOSE x \in S : \A y \in S : y <= x

\* the signals of a memory for a workflow
MemoryTagInName(w, m) == m.task_id /= <<>> /\ IsSubstring(m.task_id, w.name)
MemoryNameOverlap(w, m) == OverlapAbove(w.name, m.workflow_name, 7)
MemoryTriggerInPattern(w, m) ==
  m.trigger_pattern /= <<>> /\ \E t \in ToSet(w.triggers) : IsSubstring(t, m.trigger_pattern)
MemoryContextOverlap(w, m) == OverlapAbove(w.description, m.context, 5)

\* the signals of a prompt for a workflow
PromptTagInName(w, p) == p.task_type /= <<>> /\ IsSubstring(p.task_type, w.name)
PromptTypeInNameAnyCase(w, p) ==
  p.task_type /= <<>> /\ IsSubstring(Lower(p.task_type), Lower(w.name))
PromptWorkflowTagInName(w, p) ==
  p.workflow_tag /= <<>> /\ IsSubstring(Lower(p.workflow_tag), Lower(w.name))
PromptTextOverlap(w, p) == OverlapAbove(w.description, p.prompt, 3)
PromptContextOverlap(w, p) == OverlapAbove(w.description, p.injected_context, 3)

\* the scores of the satisfied rules, as the code has them
MemoryRuleScores(w, m) ==
  (IF MemoryTagInName(w, m) THEN {10} ELSE {})
  \cup (IF MemoryNameOverlap(w, m) THEN {8} ELSE {})
  \cup (IF MemoryTriggerInPattern(w, m) THEN {6} ELSE {})
  \cup (IF MemoryContextOverlap(w, m) THEN {5} ELSE {})

PromptRuleScores(w, p) ==
  (IF PromptTypeInNameAnyCase(w, p) THEN {10} ELSE {})
  \cup (IF PromptWorkflowTagInName(w, p) THEN {9} ELSE {})
  \cup (IF PromptTextOverlap(w, p) THEN {6} ELSE {})
  \cup (IF PromptContextOverlap(w, p) THEN {5} ELSE {})

\* the scores of the satisfied rules for a prompt by the table of four signals:
\* tag (task_type) inside the name 1.0, name overlap with the reference name
\* (workflow_tag) above 0.7 gives 0.8, description overlap 0.6 or 0.5
PromptTableScores(w, p) ==
  (IF PromptTypeInNameAnyCase(w, p) THEN {10} ELSE {})
  \cup (IF OverlapAbove(w.name, p.workflow_tag, 7) THEN {8} ELSE {})
  \cup (IF PromptTextOverlap(w, p) THEN {6} ELSE {})
  \cup (IF PromptContextOverlap(w, p) THEN {5} ELSE {})

MemoryOnlyByContext(w, m) == MemoryRuleScores(w, m) = {5}
PromptOnlyByDescription(w, p) ==
  PromptRuleScores(w, p) /= {} /\ PromptRuleScores(w, p) \subseteq {5, 6}

Position(seq, x) == CHOOSE i \in 1..Len(seq) : seq[i] = x

AgentWorkflows == ToSet(agent_workflows)

MemoryPassDone == pc \in {"enrich_workflows_with_prompts", "cluster_workflows"}
PromptPassDone == pc = "cluster_workflows"

ScoreFollowsOneTable ==
  \A w \in AgentWorkflows :
    /\ \A m \in ToSet(deeja_memories) :
         MemoryScore(w, m) = SetMax(MemoryRuleScores(w, m) \cup {0})
    /\ \A p \in ToSet(mcp_prompts) :
         PromptScore(w, p) = SetMax(PromptTableScores(w, p) \cup {0})

\* C4: the score of a record is the score of the highest satisfied rule,
\* never a sum. Memories: task_id inside the name 1.0, name overlap with
\* workflow_name above 0.7 gives 0.8, a trigger inside trigger_pattern 0.6,
\* description/context overlap above 0.5 gives 0.5. Prompts: task_type
\* inside the name (any case) 1.0, workflow_tag inside the name (any case)
\* 0.9, description/prompt overlap above 0.3 gives 0.6, description/
\* injected_context overlap above 0.3 gives 0.5.
ScoreIsHighestRule ==
  \A w \in AgentWorkflows :
    /\ \A m \in ToSet(deeja_memories) :
         MemoryScore(w, m) = SetMax(MemoryRuleScores(w, m) \cup {0})
    /\ \A p \in ToSet(mcp_prompts) :
         PromptScore(w, p) = SetMax(PromptRuleScores(w, p) \cup {0})

\* a memory and a prompt that each satisfy several rules have been scored
ScoreWitness ==
  /\ PromptPassDone
  /\ \E w \in AgentWorkflows :
       /\ \E m \in ToSet(deeja_memories) : MemoryRuleScores(w, m) = {10, 8, 6, 5}
       /\ \E p \in ToSet(mcp_prompts) : Cardinality(PromptRuleScores(w, p)) >= 3

\* the records of the list that satisfy a rule
MatchedMemories(w) == {m \in ToSet(deeja_memories) : MemoryRuleScores(w, m) /= {}}
MatchedPrompts(w) == {p \in ToSet(mcp_prompts) : PromptRuleScores(w, p) /= {}}

MemoryRank(w, m) == SetMax(MemoryRuleScores(w, m) \cup {0})
PromptRank(w, p) == SetMax(PromptRuleScores(w, p) \cup {0})

\* C5: the matcher returns at most 3 records, in non-increasing order of
\* score, and no matched record left out scores higher than a returned
\* one; after an enrichment pass the fields of a workflow with a match are
\* those of the first returned record, a record of the highest score.
TopThreeByScore ==
  \A w \in AgentWorkflows :
    /\ LET returned == FindMatchingMemories(w, deeja_memories)
       IN /\ Len(returned) = Min(3, Cardinality(MatchedMemories(w)))
          /\ ToSet(returned) \subseteq MatchedMemories(w)
          /\ \A i, j \in 1..Len(returned) :
               i < j => MemoryRank(w, returned[i]) >= MemoryRank(w, returned[j])
          /\ \A m \in MatchedMemories(w) \ ToSet(returned) :
               \A r \in ToSet(returned) : MemoryRank(w, m) <= MemoryRank(w, r)
          /\ (MemoryPassDone /\ returned /= <<>>) =>
               /\ w.memory_id = returned[1].memory_id
               /\ w.emotion = returned[1].emotion
               /\ w.deeja_tag = returned[1].tag
               /\ w.memory_context = returned[1].context
               /\ \A m \in MatchedMemories(w) : MemoryRank(w, m) <= MemoryRank(w, returned[1])
    /\ LET returned == FindMatchingPrompts(w, mcp_prompts)
       IN /\ Len(returned) = Min(3, Cardinality(MatchedPrompts(w)))
          /\ ToSet(returned) \subseteq MatchedPrompts(w)
          /\ \A i, j \in 1..Len(returned) :
               i < j => PromptRank(w, returned[i]) >= PromptRank(w, returned[j])
          /\ \A p \in MatchedPrompts(w) \ ToSet(returned) :
               \A r \in ToSet(returned) : PromptRank(w, p) <= PromptRank(w, r)
          /\ (PromptPassDone /\ returned /= <<>>) =>
               /\ w.prompt_id = returned[1].prompt_id
               /\ w.injected_prompt = returned[1].prompt
               /\ w.reasoning_score = returned[1].reasoning_score
               /\ w.mcp_context = returned[1].injected_context
               /\ \A p \in MatchedPrompts(w) : PromptRank(w, p) <= PromptRank(w, returned[1])

\* four memories match, the highest-scoring one is loaded last, one is cut
TopThreeWitness ==
  /\ MemoryPassDone
  /\ \E w \in AgentWorkflows :
       /\ Cardinality(MatchedMemories(w)) = 4
       /\ deeja_memories[4] = mem_task
       /\ w.memory_id = "m1"

\* the enrichment fields at their dataclass defaults
MemoryFieldsUnset(w) ==
  w.emotion = "" /\ w.deeja_tag = "" /\ w.memory_id = "" /\ w.memory_context = <<>>
PromptFieldsUnset(w) ==
  w.injected_prompt = <<>> /\ w.reasoning_score = 0 /\ w.prompt_id = "" /\ w.mcp_context = <<>>

\* C6: a workflow for which no record on disk satisfies a rule keeps its
\* enrichment fields at their defaults through the enrichment passes, also
\* when the record list is empty.
UnmatchedStaysUnset ==
  \A w \in AgentWorkflows :
    /\ (\A m \in ToSet(memory_files) : MemoryRuleScores(w, m) = {}) => MemoryFieldsUnset(w)
    /\ (\A p \in ToSet(prompt_files) : PromptRuleScores(w, p) = {}) => PromptFieldsUnset(w)

\* a memory pass over loaded memories none of which matches the workflow
UnmatchedWitness ==
  /\ MemoryPassDone
  /\ deeja_memories /= <<>>
  /\ \E w \in AgentWorkflows :
       /\ \A m \in ToSet(deeja_memories) : MemoryRuleScores(w, m) = {}
       /\ MemoryFieldsUnset(w) /\ PromptFieldsUnset(w)

\* the workflow and the memory of the scenario are both loaded
ScenarioLoaded(w) ==
  /\ w.name = str_mvp_validation
  /\ w.description = str_run_mvp_validation_tests
  /\ mem_frustrated \in ToSet(deeja_memories)

\* C8 as stated: for "MVP Validation" / "Run MVP validation tests" and the
\* memory with context "user frustrated wanted to automate testing" the
\* description overlap is non-zero and the memory is returned as a match.
ScenarioOverlapMatches ==
  \A w \in AgentWorkflows :
    ScenarioLoaded(w) =>
      /\ SimilarityScore(w.description, mem_frustrated.context)[1] > 0
      /\ mem_frustrated \in ToSet(FindMatchingMemories(w, deeja_memories))

\* C8: for that workflow and memory the description overlap is 0 (the texts
\* share no whitespace-separated token) and the memory is not returned.
ScenarioOverlapIsZero ==
  \A w \in AgentWorkflows :
    ScenarioLoaded(w) =>
      /\ SimilarityScore(w.description, mem_frustrated.context)[1] = 0
      /\ mem_frustrated \notin ToSet(FindMatchingMemories(w, deeja_memories))
      /\ w.memory_id /= mem_frustrated.memory_id

\* the memory pass ran on the scenario with that memory alone
ScenarioWitness ==
  /\ MemoryPassDone
  /\ deeja_memories = <<mem_frustrated>>
  /\ \E w \in AgentWorkflows : ScenarioLoaded(w) /\ MemoryFieldsUnset(w)

(***************************************************************************)
(* Properties of consolidation                                             *)
(***************************************************************************)
Consolidated == pc = "save_outputs"

ConsolidatedClusters == DOMAIN consolidated_workflows

Members(cluster_name) == ToSet(agent_clusters[cluster_name])

MergedTriggers(cluster_name) == consolidated_workflows[cluster_name].on

\* C9: in every consolidated workflow the keys of the merged trigger
\* mapping are the union of the members' trigger lists: each trigger of each
\* member of the cluster is a key, and each key is a trigger of some member.
MergedTriggersAreUnion ==
  Consolidated =>
    \A cluster_name \in ConsolidatedClusters :
      /\ \A w \in Members(cluster_name) : \A i \in 1..Len(w.triggers) :
            w.triggers[i] \in DOMAIN MergedTriggers(cluster_name)
      /\ \A key \in DOMAIN MergedTriggers(cluster_name) :
            \E w \in Members(cluster_name) : \E i \in 1..Len(w.triggers) :
              w.triggers[i] = key

\* a cluster was consolidated from members that each bring a trigger the
\* first member of the cluster does not have
MergedTriggersWitness ==
  /\ Consolidated
  /\ \E cluster_name \in ConsolidatedClusters :
        LET wfs == agent_clusters[cluster_name]
        IN /\ Len(wfs) >= 2
           /\ \E i \in 2..Len(wfs) : ~(ToSet(wfs[i].triggers) \subseteq ToSet(wfs[1].triggers))
           /\ ~(ToSet(wfs[1].triggers) \subseteq ToSet(wfs[2].triggers))

\* C10: in every merged trigger mapping the keys "push" and "pull_request"
\* map to the scope with branches main and develop, and every other key,
\* also one that contains these words or differs from them in case, maps to
\* the empty scope.
ExactTriggersGetBranchScope ==
  Consolidated =>
    \A cluster_name \in ConsolidatedClusters :
      \A key \in DOMAIN MergedTriggers(cluster_name) :
        IF key = <<"p","u","s","h">>
             \/ key = <<"p","u","l","l","_","r","e","q","u","e","s","t">>
          THEN /\ Len(MergedTriggers(cluster_name)[key]) = 1
               /\ MergedTriggers(cluster_name)[key][1] = <<"branches", <<"main", "develop">>>>
          ELSE MergedTriggers(cluster_name)[key] = <<>>

\* one merged mapping has the key "push", a key that differs from it in
\* case only and a key that contains "pull_request" and more
ExactTriggersWitness ==
  /\ Consolidated
  /\ \E cluster_name \in ConsolidatedClusters :
        LET keys == DOMAIN MergedTriggers(cluster_name)
        IN /\ <<"p","u","s","h">> \in keys
           /\ \E key \in keys : key /= <<"p","u","s","h">> /\ Lower(key) = <<"p","u","s","h">>
           /\ \E key \in keys :
                 /\ key /= <<"p","u","l","l","_","r","e","q","u","e","s","t">>
                 /\ IsSubstring(<<"p","u","l","l","_","r","e","q","u","e","s","t">>, key)

\* C11: the result of consolidate_workflows has one entry for each cluster
\* with more than one member and none for a cluster with one member: its
\* keys are the names of the clusters of two or more workflows.
ConsolidatesClustersOfSeveral ==
  Consolidated =>
    /\ \A cluster_name \in DOMAIN agent_clusters :
          Len(agent_clusters[cluster_name]) > 1 <=> cluster_name \in ConsolidatedClusters
    /\ ConsolidatedClusters \subseteq DOMAIN agent_clusters

\* the run ended with a cluster of one workflow beside a cluster of several
ConsolidatesWitness ==
  /\ Consolidated
  /\ \E cluster_name \in DOMAIN agent_clusters : Len(agent_clusters[cluster_name]) = 1
  /\ \E cluster_name \in DOMAIN agent_clusters :
        Len(agent_clusters[cluster_name]) > 1 /\ cluster_name \in ConsolidatedClusters

MergedJobs(cluster_name) == consolidated_workflows[cluster_name].jobs

EndsInUnderscoreDigits(text) ==
  \E i \in 1..(Len(text) - 1) :
    /\ text[i] = "_"
    /\ \A j \in (i + 1)..Len(text) : \E d \in 1..10 : DecimalDigits[d] = text[j]

\* C12: the merged jobs of a consolidated cluster are as many as its
\* members, so the job names of the members are pairwise distinct, also for
\* members of the same name and for names that end in '_' and digits.
OneJobPerMember ==
  Consolidated =>
    \A cluster_name \in ConsolidatedClusters :
      Cardinality(DOMAIN MergedJobs(cluster_name)) = Len(agent_clusters[cluster_name])

\* a consolidated cluster holds two members of one name and a member whose
\* name ends in '_' and digits
OneJobWitness ==
  /\ Consolidated
  /\ \E cluster_name \in ConsolidatedClusters :
        LET wfs == agent_clusters[cluster_name]
        IN /\ \E i, j \in 1..Len(wfs) : i < j /\ wfs[i].name = wfs[j].name
           /\ \E i \in 1..Len(wfs) : EndsInUnderscoreDigits(wfs[i].name)

\* the text of an action after its first 'run:', without the blanks around it
DirectiveOf(action) ==
  LET at == CHOOSE i \in 1..(Len(action) - 3) :
              /\ SubSeq(action, i, i + 3) = <<"r","u","n",":">>
              /\ \A j \in 1..(i - 1) : SubSeq(action, j, j + 3) /= <<"r","u","n",":">>
      rest == SubSeq(action, at + 4, Len(action))
      kept == {i \in 1..Len(rest) : rest[i] \notin {" ", "\t", "\n"}}
  IN IF kept = {} THEN <<>>
     ELSE SubSeq(rest, CHOOSE i \in kept : \A j \in kept : i <= j,
                       CHOOSE i \in kept : \A j \in kept : j <= i)

HasDirective(action) ==
  \E i \in 1..(Len(action) - 3) : SubSeq(action, i, i + 3) = <<"r","u","n",":">>

\* the steps are the actions in order, each 'run:' action with its whole directive
StepsOf(steps, actions) ==
  /\ Len(steps) = Len(actions)
  /\ \A k \in 1..Len(actions) :
        steps[k].run = IF HasDirective(actions[k]) THEN DirectiveOf(actions[k])
                       ELSE actions[k]

\* C13: every member of a consolidated cluster has a job whose steps are its
\* actions, one step per action in order: the command of a 'run:' action is
\* the whole text after 'run:' (also when 'run:' occurs again in it), the
\* command of any other action is the action text.
StepsKeepWholeDirective ==
  Consolidated =>
    \A cluster_name \in ConsolidatedClusters :
      \A w \in Members(cluster_name) :
        \E job_name \in DOMAIN MergedJobs(cluster_name) :
          StepsOf(MergedJobs(cluster_name)[job_name].steps, w.actions)

MergedEnv(cluster_name) == consolidated_workflows[cluster_name].env

EndsWith(text, suffix) ==
  Len(text) >= Len(suffix) /\ SubSeq(text, Len(text) - Len(suffix) + 1, Len(text)) = suffix

EnvEntries(cluster_name, suffix) ==
  {key \in DOMAIN MergedEnv(cluster_name) : EndsWith(key, suffix)}

\* C14: the merged environment of a consolidated cluster has as many
\* _ENABLED entries as the cluster has members (also when two members share
\* a name), as many _EMOTION entries as members with an emotion and as many
\* _REASONING_SCORE entries as members with a reasoning score.
EnvHasFlagPerMember ==
  Consolidated =>
    \A cluster_name \in ConsolidatedClusters :
      LET wfs == agent_clusters[cluster_name]
      IN /\ Cardinality(EnvEntries(cluster_name, <<"_","E","N","A","B","L","E","D">>))
              = Len(wfs)
         /\ Cardinality(EnvEntries(cluster_name, <<"_","E","M","O","T","I","O","N">>))
              = Cardinality({i \in 1..Len(wfs) : wfs[i].emotion /= ""})
         /\ Cardinality(EnvEntries(cluster_name,
                <<"_","R","E","A","S","O","N","I","N","G","_","S","C","O","R","E">>))
              = Cardinality({i \in 1..Len(wfs) : wfs[i].reasoning_score > 0})

NoRepeats(seq) == \A i, j \in 1..Len(seq) : seq[i] = seq[j] => i = j

\* C15: the context summaries of a consolidated cluster hold each distinct
\* non-empty emotion, tag, memory id, prompt id and reasoning score of the
\* members once, and average_reasoning_score is the mean of the members'
\* reasoning scores, 0 when no member has one.
ContextSummariesAreSets ==
  Consolidated =>
    \A cluster_name \in ConsolidatedClusters :
      LET wfs == agent_clusters[cluster_name]
          memory == consolidated_workflows[cluster_name].memory_context
          prompt == consolidated_workflows[cluster_name].prompt_context
          scores == {wfs[i].reasoning_score : i \in 1..Len(wfs)} \ {0}
          scored == {i \in 1..Len(wfs) : wfs[i].reasoning_score > 0}
      IN /\ memory.emotions = {wfs[i].emotion : i \in 1..Len(wfs)} \ {""}
         /\ memory.deeja_tags = {wfs[i].deeja_tag : i \in 1..Len(wfs)} \ {""}
         /\ memory.memory_ids = {wfs[i].memory_id : i \in 1..Len(wfs)} \ {""}
         /\ prompt.prompt_ids = {wfs[i].prompt_id : i \in 1..Len(wfs)} \ {""}
         /\ ToSet(prompt.reasoning_scores) = scores
         /\ NoRepeats(prompt.reasoning_scores)
         /\ IF scored = {}
              THEN prompt.average_reasoning_score[1] = 0
              ELSE prompt.average_reasoning_score[1] * Cardinality(scored)
                     = Sum(prompt.reasoning_scores) * prompt.average_reasoning_score[2]

(***************************************************************************)
(* Properties of _determine_cluster_type                                   *)
(***************************************************************************)
TypeCalled == typeResult /= NoLabel

\* the text of the cluster: name, description and actions of each member,
\* joined by blanks, in lower case
ClusterText ==
  LET part(w) == w.name \o <<" ">> \o w.description \o <<" ">> \o Join(<<" ">>, w.actions)
      RECURSIVE joined(_)
      joined(i) == IF i > Len(typeWorkflows) THEN <<>>
                   ELSE IF i = Len(typeWorkflows) THEN part(typeWorkflows[i])
                   ELSE part(typeWorkflows[i]) \o <<" ">> \o joined(i + 1)
  IN Lower(joined(1))

\* the number of keywords of the t-th category that occur in the text
HitCount(t) ==
  Cardinality({kw \in ToSet(TypePatterns[t].keywords) : IsSubstring(kw, ClusterText)})

Categories == 1..Len(TypePatterns)

\* C16: the label is the category with the most keywords in the cluster's
\* text, and among the categories with that count the one declared first.
LabelIsFirstOfHighestCount ==
  TypeCalled =>
    \E t \in Categories :
      /\ typeResult = TypePatterns[t].cluster_type
      /\ \A u \in Categories : HitCount(u) <= HitCount(t)
      /\ \A u \in Categories : u < t => HitCount(u) < HitCount(t)

\* two later categories share the highest count and the first category has
\* a smaller count that is not 0
LabelWitness ==
  /\ TypeCalled
  /\ \E t, u \in Categories :
       /\ 1 < t /\ t < u
       /\ HitCount(t) = HitCount(u)
       /\ \A v \in Categories : HitCount(v) <= HitCount(t)
       /\ 0 < HitCount(1) /\ HitCount(1) < HitCount(t)
       /\ typeResult = TypePatterns[t].cluster_type

\* C17: when no keyword of any category occurs in the cluster's text the
\* label is 'General Automation'.
NoKeywordGivesGeneral ==
  (TypeCalled /\ \A t \in Categories : HitCount(t) = 0) =>
    typeResult = "General Automation"

(***************************************************************************)
(* Properties of the cosine similarity                                     *)
(***************************************************************************)
CosineCalled == cosineResult /= NoResult

IsZeroVector(v) == \A i \in 1..Len(v) : v[i] = 0

NonNegative(v) == \A i \in 1..Len(v) : v[i] >= 0

\* <<n, d>> stands for n / sqrt(d)
IsOne(value) == value[1] > 0 /\ value[1] * value[1] = value[2]
IsZero(value) == value[1] = 0
InUnitInterval(value) == value[1] >= 0 /\ value[1] * value[1] <= value[2]
SameValue(x, y) ==
  /\ (x[1] > 0) = (y[1] > 0)
  /\ (x[1] < 0) = (y[1] < 0)
  /\ x[1] * x[1] * y[2] = y[1] * y[1] * x[2]

\* C20: the similarity of two vectors is the same in both orders, it is 1
\* for a non-zero vector and itself, 0 when either vector is the zero
\* vector, and within [0, 1] for vectors of non-negative weights.
CosineIsSymmetricAndBounded ==
  CosineCalled =>
    /\ SameValue(cosineResult, CosineSimilarity(vectorB, vectorA))
    /\ (vectorA = vectorB /\ ~IsZeroVector(vectorA)) => IsOne(cosineResult)
    /\ (IsZeroVector(vectorA) \/ IsZeroVector(vectorB)) => IsZero(cosineResult)
    /\ (NonNegative(vectorA) /\ NonNegative(vectorB)) => InUnitInterval(cosineResult)

\* the similarity of a non-zero vector of norm other than 1 with itself
CosineWitness ==
  /\ CosineCalled
  /\ vectorA = vectorB
  /\ NonNegative(vectorA)
  /\ \E i, j \in 1..Len(vectorA) : i /= j /\ vectorA[i] > 0 /\ vectorA[j] > 0
(***************************************************************************)
(* Failing and empty calls of AutomationClusterer                          *)
(***************************************************************************)
\* the arguments of the call are outside what the strategies accept: a
\* name that is no strategy, or a k that is not in 1..len(self.workflows)
BadConfiguration(call) ==
  /\ call.op = "cluster_by_similarity"
  /\ \/ call.method \notin {"kmeans", "dbscan"}
     \/ /\ call.method = "kmeans"
        /\ \/ call.n_clusters <= 0
           \/ call.n_clusters > Len(call.workflows)

Failed(call) == call.outcome /= "ok" /\ call.returned = NoResult

\* C21: a cluster_by_similarity call with an unknown strategy name, or with
\* 'kmeans' and k <= 0 or k greater than the number of loaded workflows,
\* raises: it returns no clusters and self.clusters keeps the value it had
\* before the call.
ConfigurationErrorKeepsClusters ==
  [][BadConfiguration(lastCall') => Failed(lastCall') /\ clusters' = clusters]_vars

\* a call with k greater than the number of loaded workflows failed on a
\* clusterer that holds the clusters of an earlier call
ConfigurationErrorWitness ==
  /\ BadConfiguration(lastCall)
  /\ lastCall.method = "kmeans"
  /\ lastCall.n_clusters > Len(lastCall.workflows)
  /\ lastCall.workflows /= <<>>
  /\ Failed(lastCall)
  /\ clusters /= <<>>

\* C22: when a cluster_by_similarity call fails on its configuration, no
\* feature extraction has been performed: self.feature_vectors (and with it
\* the fitted vectorizer) and self.clusters are as before the call.
ConfigurationErrorBeforeExtraction ==
  [][(BadConfiguration(lastCall') /\ Failed(lastCall'))
       => feature_vectors' = feature_vectors /\ clusters' = clusters]_vars

\* C23: cluster_by_similarity with no workflow loaded, called with one of
\* the two strategies (and a positive k for 'kmeans'), returns an empty list
\* of clusters and does not fail.
EmptyBatchReturnsNoClusters ==
  (/\ IsClusterCall
   /\ lastCall.workflows = <<>>
   /\ lastCall.method \in {"kmeans", "dbscan"}
   /\ lastCall.method = "kmeans" => lastCall.n_clusters >= 1)
    => lastCall.outcome = "ok" /\ lastCall.returned = <<>>

(***************************************************************************)
(* Enrichment called by a caller of the agent                              *)
(***************************************************************************)
Called(method) == method \in ToSet(calls)

\* none of the four keys the matcher reads is set
BlankMemory(m) ==
  m.task_id = <<>> /\ m.workflow_name = <<>> /\ m.trigger_pattern = <<>> /\ m.context = <<>>
BlankPrompt(p) ==
  p.task_type = <<>> /\ p.workflow_tag = <<>> /\ p.prompt = <<>> /\ p.injected_context = <<>>

\* C24: a memory whose task_id, workflow_name, trigger_pattern and context
\* are all empty, and a prompt whose task_type, workflow_tag, prompt and
\* injected_context are all empty, is never in the list the matcher returns
\* and is never attached to a workflow; for a workflow without description
\* the score of every record is the one it has without its context
\* (memories) or without its prompt and injected_context (prompts), and for
\* a workflow with no trigger the score of every memory is the one it has
\* without its trigger_pattern.
EmptyFieldsNeverMatch ==
  \A w \in AgentWorkflows :
    /\ \A m \in ToSet(deeja_memories) :
         /\ BlankMemory(m) =>
              /\ m \notin ToSet(FindMatchingMemories(w, deeja_memories))
              /\ w.memory_id /= m.memory_id
         /\ w.description = <<>> =>
              MemoryScore(w, m) = MemoryScore(w, [m EXCEPT !.context = <<>>])
         /\ w.triggers = <<>> =>
              MemoryScore(w, m) = MemoryScore(w, [m EXCEPT !.trigger_pattern = <<>>])
    /\ \A p \in ToSet(mcp_prompts) :
         /\ BlankPrompt(p) =>
              /\ p \notin ToSet(FindMatchingPrompts(w, mcp_prompts))
              /\ w.prompt_id /= p.prompt_id
         /\ w.description = <<>> =>
              PromptScore(w, p) =
                PromptScore(w, [p EXCEPT !.prompt = <<>>, !.injected_context = <<>>])

\* both passes ran over a workflow without triggers with a blank memory
\* listed first, a blank prompt, a trigger-only memory that stays out and a
\* context memory that is attached
EmptyFieldsWitness ==
  /\ Called("enrich_workflows_with_memory")
  /\ Called("enrich_workflows_with_prompts")
  /\ Len(deeja_memories) >= 3
  /\ deeja_memories[1] = mem_blank
  /\ mem_trigger \in ToSet(deeja_memories)
  /\ prompt_blank \in ToSet(mcp_prompts)
  /\ \E w \in AgentWorkflows :
       /\ w.triggers = <<>>
       /\ w.memory_id = "m4"
       /\ mem_trigger \notin ToSet(FindMatchingMemories(w, deeja_memories))

\* the workflow differs from the one before the step in these fields only
SameBut(after, before, fields) ==
  /\ DOMAIN after = DOMAIN before
  /\ \A f \in DOMAIN before : f \notin fields => after[f] = before[f]

MemoryFields == {"emotion", "deeja_tag", "memory_id", "memory_context"}
PromptFields == {"injected_prompt", "reasoning_score", "prompt_id", "mcp_context"}

\* C27: a call of enrich_workflows_with_memory changes, in the workflows,
\* only emotion, deeja_tag, memory_id and memory_context, and a call of
\* enrich_workflows_with_prompts only injected_prompt, reasoning_score,
\* prompt_id and mcp_context; the lists of memories and prompts and the
\* number and order of the workflows stay as they are.
EnrichmentWritesOnlyItsFields ==
  [][calls' /= calls =>
       /\ deeja_memories' = deeja_memories
       /\ mcp_prompts' = mcp_prompts
       /\ Len(agent_workflows') = Len(agent_workflows)
       /\ \A i \in 1..Len(agent_workflows) :
            SameBut(agent_workflows'[i], agent_workflows[i],
                    IF calls'[Len(calls')] = "enrich_workflows_with_memory"
                      THEN MemoryFields ELSE PromptFields)]_vars

\* each pass has attached a record to a workflow
EnrichmentWitness ==
  /\ Called("enrich_workflows_with_memory")
  /\ Called("enrich_workflows_with_prompts")
  /\ \E w \in AgentWorkflows :
       /\ w.memory_id /= "" /\ w.memory_context /= <<>>
       /\ w.prompt_id /= "" /\ w.injected_prompt /= <<>>
       /\ w.triggers /= <<>> /\ w.description /= <<>>

\* the matched record listed first among those of the highest score
EarliestBestMemory(w) ==
  CHOOSE m \in MatchedMemories(w) :
    \A n \in MatchedMemories(w) :
      \/ MemoryRank(w, n) < MemoryRank(w, m)
      \/ /\ MemoryRank(w, n) = MemoryRank(w, m)
         /\ Position(deeja_memories, m) <= Position(deeja_memories, n)
EarliestBestPrompt(w) ==
  CHOOSE p \in MatchedPrompts(w) :
    \A q \in MatchedPrompts(w) :
      \/ PromptRank(w, q) < PromptRank(w, p)
      \/ /\ PromptRank(w, q) = PromptRank(w, p)
         /\ Position(mcp_prompts, p) <= Position(mcp_prompts, q)

\* C29: records with the same score stand in the matcher's result in the
\* order of the input list; a matched record listed before a returned
\* record of the same score is returned too; after a pass the record
\* attached to a workflow is the earliest-listed one of the highest score.
TiesKeepInputOrder ==
  \A w \in AgentWorkflows :
    /\ LET returned == FindMatchingMemories(w, deeja_memories)
       IN /\ \A i, j \in 1..Len(returned) :
               (i < j /\ MemoryRank(w, returned[i]) = MemoryRank(w, returned[j]))
                 => Position(deeja_memories, returned[i])
                      < Position(deeja_memories, returned[j])
          /\ \A r \in ToSet(returned), m \in MatchedMemories(w) :
               (/\ MemoryRank(w, m) = MemoryRank(w, r)
                /\ Position(deeja_memories, m) < Position(deeja_memories, r))
                 => m \in ToSet(returned)
          /\ (Called("enrich_workflows_with_memory") /\ MatchedMemories(w) /= {})
               => w.memory_id = EarliestBestMemory(w).memory_id
    /\ LET returned == FindMatchingPrompts(w, mcp_prompts)
       IN /\ \A i, j \in 1..Len(returned) :
               (i < j /\ PromptRank(w, returned[i]) = PromptRank(w, returned[j]))
                 => Position(mcp_prompts, returned[i]) < Position(mcp_prompts, returned[j])
          /\ \A r \in ToSet(returned), p \in MatchedPrompts(w) :
               (/\ PromptRank(w, p) = PromptRank(w, r)
                /\ Position(mcp_prompts, p) < Position(mcp_prompts, r))
                 => p \in ToSet(returned)
          /\ (Called("enrich_workflows_with_prompts") /\ MatchedPrompts(w) /= {})
               => w.prompt_id = EarliestBestPrompt(w).prompt_id

\* four memories match in two pairs of equal score, the pair of the higher
\* score is listed last, and the later memory of the lower pair is cut
TiesWitness ==
  /\ Called("enrich_workflows_with_memory")
  /\ Len(deeja_memories) = 4
  /\ \E w \in AgentWorkflows :
       /\ Cardinality(MatchedMemories(w)) = 4
       /\ MemoryRank(w, deeja_memories[1]) = MemoryRank(w, deeja_memories[2])
       /\ MemoryRank(w, deeja_memories[3]) = MemoryRank(w, deeja_memories[4])
       /\ MemoryRank(w, deeja_memories[2]) < MemoryRank(w, deeja_memories[3])
       /\ FindMatchingMemories(w, deeja_memories)
            = <<deeja_memories[3], deeja_memories[4], deeja_memories[1]>>
       /\ w.memory_id = deeja_memories[3].memory_id

\* the parsed workflow after one memory pass, if that method was called,
\* and then one prompt pass, if that method was called
EnrichedOnce(workflow) ==
  LET with_memory == IF Called("enrich_workflows_with_memory")
                       THEN EnrichWithMemory(workflow, deeja_memories)
                       ELSE workflow
  IN IF Called("enrich_workflows_with_prompts")
       THEN EnrichWithPrompt(with_memory, mcp_prompts)
       ELSE with_memory

\* C30: whatever the number and the order of the calls of the two
\* enrichment methods, every workflow is the parsed workflow after one
\* memory pass (if enrich_workflows_with_memory was called at all) followed
\* by one prompt pass (if enrich_workflows_with_prompts was called at all):
\* a repeated pass changes nothing and the order of the passes does not
\* matter.
EnrichmentIsIdempotentAndCommutes ==
  pc = "enrich_workflows_with_memory" =>
    /\ Len(agent_workflows) = Len(workflow_files)
    /\ \A i \in 1..Len(agent_workflows) :
         agent_workflows[i] = EnrichedOnce(workflow_files[i])

\* the prompt pass ran before the memory pass, the memory pass ran twice,
\* and both attached a record
IdempotentWitness ==
  /\ calls = <<"enrich_workflows_with_prompts", "enrich_workflows_with_memory",
               "enrich_workflows_with_memory">>
  /\ \E w \in AgentWorkflows : w.memory_id /= "" /\ w.prompt_id /= ""

(***************************************************************************)
(* Properties of the keyword clusters                                      *)
(***************************************************************************)
Clustered == pc \in {"consolidate_workflows", "save_outputs"}

ClusterNames ==
  {"PR Management", "Deployment", "Memory Debugger", "MVP Testing", "General Automation"}

\* the groups in the order of the claim, each with the position of its
\* keyword list
GroupOrder == <<"PR Management", "Deployment", "Memory Debugger", "MVP Testing">>

\* a keyword of the g-th group is a substring of the text searched
GroupHit(w, g) ==
  \E i \in 1..Len(ClusterKeywords[g].keywords) :
    IsSubstring(ClusterKeywords[g].keywords[i], ClusterContent(w))

\* the first group of the order with a keyword in the text
FirstGroup(w) ==
  IF \E g \in 1..Len(GroupOrder) : GroupHit(w, g)
    THEN GroupOrder[CHOOSE g \in 1..Len(GroupOrder) :
                      GroupHit(w, g) /\ \A h \in 1..(g - 1) : ~GroupHit(w, h)]
    ELSE "General Automation"

RECURSIVE SizesOf(_, _)
SizesOf(dict, keys) ==
  IF keys = {} THEN 0
  ELSE LET k == CHOOSE x \in keys : TRUE
       IN Len(dict[k]) + SizesOf(dict, keys \ {k})

\* C28: after cluster_workflows every workflow of self.workflows is in
\* exactly one cluster, no cluster is empty, the sizes of the clusters sum to
\* the number of workflows, every cluster name is one of the five names,
\* and a workflow is in the cluster of the first group, in the order PR
\* Management, Deployment, Memory Debugger, MVP Testing, with a keyword that
\* is a substring of its text, or in General Automation when there is none.
KeywordClustersPartition ==
  Clustered =>
    /\ \A i \in 1..Len(agent_workflows) :
         Cardinality({k \in DOMAIN agent_clusters :
                        agent_workflows[i] \in ToSet(agent_clusters[k])}) = 1
    /\ \A k \in DOMAIN agent_clusters : agent_clusters[k] /= <<>>
    /\ SizesOf(agent_clusters, DOMAIN agent_clusters) = Len(agent_workflows)
    /\ DOMAIN agent_clusters \subseteq ClusterNames
    /\ \A k \in DOMAIN agent_clusters :
         \A w \in ToSet(agent_clusters[k]) : k = FirstGroup(w)

\* three clusters, one of them with a workflow that has keywords of two
\* groups and one with 'pr' only inside the word 'preview'
KeywordClustersWitness ==
  /\ Clustered
  /\ Cardinality(DOMAIN agent_clusters) >= 2
  /\ \E w \in AgentWorkflows :
       /\ w.file_path = "preview.yml"
       /\ GroupHit(w, 1) /\ GroupHit(w, 2)
       /\ w \in ToSet(agent_clusters["PR Management"])
  /\ \E w \in AgentWorkflows : FirstGroup(w) = "General Automation"

(***************************************************************************)
(* Order of the steps of a run                                             *)
(***************************************************************************)
\* the statements of run in the order of the text of the method
RunSteps ==
  <<"load_deeja_memories", "load_mcp_prompts", "parse_workflows",
    "enrich_workflows_with_memory", "enrich_workflows_with_prompts",
    "cluster_workflows", "consolidate_workflows", "save_outputs">>

StepIndex(step) == CHOOSE i \in 1..Len(RunSteps) : RunSteps[i] = step

\* every parsed workflow has been through the memory pass and the prompt pass
FullyEnriched ==
  /\ Len(agent_workflows) = Len(workflow_files)
  /\ \A i \in 1..Len(agent_workflows) :
       agent_workflows[i] =
         EnrichWithPrompt(EnrichWithMemory(workflow_files[i], deeja_memories), mcp_prompts)

\* C25: the steps of run are taken in the order of RunSteps, one after the
\* other; when cluster_workflows starts both enrichment passes are done for
\* every workflow, and when consolidate_workflows starts self.clusters holds
\* the clusters of those workflows; in a run of the clusterer script, every
\* call that gets to cluster has the rows extracted from the whole loaded
\* batch, one row per workflow.
StepsInFixedOrder ==
  [][/\ pc' /= pc => StepIndex(pc') = StepIndex(pc) + 1
     /\ (pc = "cluster_workflows" /\ pc' /= pc) =>
          /\ FullyEnriched
          /\ agent_workflows' = agent_workflows
     /\ (pc = "consolidate_workflows" /\ pc' /= pc) =>
          /\ FullyEnriched
          /\ agent_clusters = ClusterWorkflowsByKey(agent_workflows)
          /\ consolidated_workflows' = ConsolidateClusters(agent_clusters)
     /\ (lastCall'.op = "cluster_by_similarity" /\ lastCall'.vectors /= None) =>
          /\ lastCall'.vectors = FitTransform(WorkflowTexts(workflows))
          /\ Len(lastCall'.vectors.tf) = Len(workflows)
          /\ feature_vectors' = lastCall'.vectors]_vars

\* a run of the agent got to the end with a consolidated cluster whose
\* members carry a memory and a prompt
StepsWitness ==
  /\ pc = "save_outputs"
  /\ DOMAIN consolidated_workflows /= {}
  /\ \E k \in DOMAIN consolidated_workflows :
       \E w \in ToSet(agent_clusters[k]) : w.memory_id /= "" /\ w.prompt_id /= ""

(***************************************************************************)
(* The review scenario                                                     *)
(***************************************************************************)
IsReview(w) ==
  \/ w.name = <<"P","R"," ","R","e","v","i","e","w">>
  \/ w.name = <<"C","o","d","e"," ","R","e","v","i","e","w"," ","B","o","t">>

\* the returned clusters, by position, that hold both review workflows
ReviewClusters ==
  {c \in 1..Len(Returned) :
     Cardinality({w \in ToSet(Returned[c].workflows) : IsReview(w)}) = 2}

ScenarioClustered == pc = "main" /\ ReturnedBy("kmeans")

\* the merged triggers have pull_request with the branches main and develop
PullRequestIsScoped(cluster_name) ==
  LET key == <<"p","u","l","l","_","r","e","q","u","e","s","t">>
  IN /\ key \in DOMAIN MergedTriggers(cluster_name)
     /\ MergedTriggers(cluster_name)[key] = << <<"branches", <<"main", "develop">>>> >>

\* what the agent makes of the scenario
ScenarioConsolidated ==
  (pc = "save_outputs" /\ agent_workflows /= <<>>) =>
    /\ "PR Management" \in DOMAIN agent_clusters
    /\ \A w \in AgentWorkflows : IsReview(w) => w \in ToSet(agent_clusters["PR Management"])
    /\ "PR Management" \in DOMAIN consolidated_workflows
    /\ PullRequestIsScoped("PR Management")

====
